---- MODULE Spec2Model ----
(***************************************************************************)
(* Model of the winc-cloner sector synchronization engine                  *)
(* (firmware/src/winc_cloner.c): extract / update / compare of the WINC    *)
(* flash against a file, the PLL table rebuild, and the one-time download  *)
(* mode gate (open_winc).                                                  *)
(*                                                                         *)
(* Scaling.  Sizes are scaled down so that the model is finite: a flash    *)
(* sector is FLASH_SECTOR_SZ = 2 bytes instead of 4096, one megabit of     *)
(* flash is one sector instead of 32 (the shift is 1 instead of 17, so the *)
(* capacity stays a multiple of the sector size, as in the code), and the  *)
(* PLL/GAIN configuration sector is sector 2 instead of sector 3.  Bytes   *)
(* take the values 0, 1 and 255 (the value of an erased flash byte).       *)
(* The flash starts with one of two images with pairwise different,        *)
(* non-uniform sectors; each sector-sized chunk of the file is taken from  *)
(* one of the two images (so it equals or differs from the flash sector),  *)
(* and the file ends after any number of bytes up to MaxFileLen.           *)
(*                                                                         *)
(* One action is one call of cloner_aux up to the inner loop, one          *)
(* iteration of an inner loop (with the return and the file close when it  *)
(* is the last one), or one whole call of winc_cloner_rebuild_pll.         *)
(* Every external primitive (m2m_wifi_download_mode, spi_flash_read,       *)
(* spi_flash_erase, spi_flash_write, SYS_FS_FileOpen, SYS_FS_FileRead,     *)
(* SYS_FS_FileWrite, read_efuse_struct) may fail nondeterministically; an   *)
(* action chooses which call of the step fails, if any.                    *)
(* The scratch buffers s_xfer_buf2 and buf2 are completely overwritten     *)
(* before each use, so they are local values of the actions.               *)
(*                                                                         *)
(* The size of the PLL table does not survive the scaling, so the table    *)
(* builder winc3400_pll_table_build is also modelled on its own, with the  *)
(* sizes of the code, in the specification SynthSpec.                      *)
(***************************************************************************)
EXTENDS Integers, Sequences, FiniteSets, TLC

\* ------------------------------------------------------------------------
\* Bounds of the model
MaxFlashSize == 3      \* largest flash size reported, in (scaled) megabits
MaxFileLen == 6        \* longest file found on the file system, in bytes
MaxOps == 2            \* number of engine operations in one run

\* ------------------------------------------------------------------------
\* Program constants (scaled, see above)
FLASH_SECTOR_SZ == 2
MegabitShift == 1
M2M_PLL_FLASH_OFFSET == 4
M2M_CONFIG_SECT_TOTAL_SZ == FLASH_SECTOR_SZ
ERASED == 255

BYTE == {0, 1}

VARIABLES
  flash_size,        \* what spi_flash_get_size() reports (megabits)
  medium,            \* the WINC flash content, byte at address a is medium[a+1]
  file,              \* content of the file named by the user
  efuse,             \* FreqOffset field of the efuse record
  s_winc_is_opened,  \* static flag of winc_cloner.c
  s_xfer_buf,        \* static transfer buffer of winc_cloner.c
  pc,                \* "ready": no operation in progress; "loop": in inner_loop
  op,                \* operation in progress or last finished ("none" at start)
  n_bytes,           \* loop variable: bytes left
  addr,              \* loop variable: src_addr / dst_addr
  fpos,              \* position of the open file handle
  fopen,             \* TRUE while a file handle is open
  ret,               \* value returned by the last finished operation
  log,               \* external calls made by the current / last operation
  report,            \* per-sector results printed by the current / last operation
  medium0,           \* medium content when the current / last operation started
  dl_calls,          \* number of calls of m2m_wifi_download_mode so far
  prev,              \* summary of the operation finished before the current one
  nops,              \* operations started so far
  syn_pc,            \* table builder: "idle", "call" (entered), "returned"
  syn_null,          \* table builder: TRUE when pBuffer is NULL
  syn_freqOffset,    \* table builder: argument freqOffset
  syn_ret,           \* table builder: value returned
  syn_i32,           \* table builder: local i32xo_offset
  syn_buf,           \* table builder: the words written to pBuffer (TableSpec)
  syn_prev,          \* table builder: argument and words of the call before
  syn_calls,         \* table builder: calls made so far (TableSpec)
  ct_state,          \* cmd_task: s_cmd_task_ctx.state
  ct_cmds,           \* cmd_task: command characters taken so far
  ct_call,           \* cmd_task: the engine entry point called by the last step
  dr_state,          \* dir_reader: s_dir_reader_ctx.state
  dr_file_count,     \* dir_reader: s_dir_reader_ctx.file_count
  dr_dir_handle,     \* dir_reader: s_dir_reader_ctx.dir_handle
  s_filenames,       \* dir_reader: the table of image file names
  dr_stores,         \* dir_reader: the stores of the current listing
  dir,               \* the entries of the root directory of the card
  dir_pos,           \* entries delivered by SYS_FS_DirRead since the open
  lr_state,          \* line_reader: s_line_reader_ctx.state
  lr_linebuf,        \* line_reader: s_line_reader_ctx.linebuf
  lr_n_read,         \* line_reader: s_line_reader_ctx.n_read
  lr_oob,            \* line_reader: memory outside linebuf was read or written
  con_err,           \* who got an error from SYS_CONSOLE_Read in the last step
  con_errs,          \* errors returned by SYS_CONSOLE_Read so far
  con_in,            \* what the last read of line_reader returned and left
  lr_cmd,            \* the command (ct_cmds) that called line_reader_start
  ct_ncalls,         \* engine entry points called since the last command
  app_state,         \* app: s_app_ctx.state
  app_mount_retries, \* app: s_app_ctx.mount_retries
  fs_mounted,        \* SYS_FS_Mount has succeeded
  fs_drive           \* SYS_FS_CurrentDriveSet has succeeded

vars == <<flash_size, medium, file, efuse, s_winc_is_opened, s_xfer_buf, pc, op,
          n_bytes, addr, fpos, fopen, ret, log, report, medium0, dl_calls,
          prev, nops, syn_pc, syn_null, syn_freqOffset, syn_ret, syn_i32,
          syn_buf, syn_prev, syn_calls, ct_state, ct_cmds, ct_call, dr_state,
          dr_file_count, dr_dir_handle, s_filenames, dr_stores, dir, dir_pos,
          lr_state, lr_linebuf, lr_n_read, lr_oob, con_err, con_errs, con_in,
          lr_cmd, ct_ncalls, app_state, app_mount_retries, fs_mounted,
          fs_drive>>

\* the variables of the engine
enginevars == <<flash_size, medium, file, efuse, s_winc_is_opened, s_xfer_buf,
                pc, op, n_bytes, addr, fpos, fopen, ret, log, report, medium0,
                dl_calls, prev, nops>>

\* the variables of the table builder run on its own
synvars == <<syn_pc, syn_null, syn_freqOffset, syn_ret, syn_i32, syn_buf,
            syn_prev, syn_calls>>

\* the variables of the application task, the command task, the directory
\* reader, the line reader and their environment (TaskSpec)
taskvars == <<ct_state, ct_cmds, ct_call, dr_state, dr_file_count,
             dr_dir_handle, s_filenames, dr_stores, dir, dir_pos, lr_state,
             lr_linebuf, lr_n_read, lr_oob, con_err, con_errs, con_in,
             lr_cmd, ct_ncalls, app_state, app_mount_retries, fs_mounted,
             fs_drive>>

\* ------------------------------------------------------------------------
\* Constants of the command task, the directory reader and the line reader.
\* The tables are scaled down: the directory reader keeps MAX_IMG_FILENAMES
\* = 2 names of MAX_FILENAME_LENGTH = 8 characters (20 names of 80 characters
\* in the code; as in the code a slot is longer than any name the file system
\* delivers), the line reader keeps MAX_CHARS = 2 characters (100 in the
\* code).  size_t is SIZE_T_BITS = 16 bits wide (32 on the target): its values
\* are only compared with 0 and added to an 8 bit counter, which gives the
\* same results for every width that is a multiple of 8.
MAX_FILENAME_LENGTH == 8
MAX_IMG_FILENAMES == 2
MAX_CHARS == 2
SIZE_T_BITS == 16
UINT8_BITS == 8

\* a character is a string of the model; these are '\0', '\r', '\n', '\e'
NUL == "NUL"
CR == "CR"
LF == "LF"
ESC == "ESC"

\* ".wimg"
IMAGE_EXTENSION == <<".", "w", "i", "m", "g">>

\* the null pointer, where a pointer is an offset into the table it points to
NULL == -1

\* the console returned no character and holds none
NoInput == [chars |-> <<>>, next |-> "none"]

\* no engine entry point was called
NoCall == [op |-> "none", filename |-> <<>>, ret |-> FALSE]

\* the state after APP_Initialize (with cmd_task_init and dir_reader_init) and
\* the zero initialization of the static storage, with an empty card and a
\* silent console
TaskAtRest ==
  /\ ct_state = "INIT"
  /\ ct_cmds = 0
  /\ ct_call = NoCall
  /\ dr_state = "IDLE"
  /\ dr_file_count = 0
  /\ dr_dir_handle = "INVALID"
  /\ s_filenames = [i \in 1..(MAX_IMG_FILENAMES * MAX_FILENAME_LENGTH) |-> NUL]
  /\ dr_stores = <<>>
  /\ dir = <<>>
  /\ dir_pos = 0
  /\ lr_state = "INIT"
  /\ lr_linebuf = [i \in 1..MAX_CHARS |-> NUL]
  /\ lr_n_read = 0
  /\ lr_oob = FALSE
  /\ con_err = "none"
  /\ con_errs = 0
  /\ con_in = NoInput
  /\ lr_cmd = 0
  /\ ct_ncalls = 0
  /\ app_state = "IDLE"
  /\ app_mount_retries = 0
  /\ fs_mounted = FALSE
  /\ fs_drive = FALSE

\* ------------------------------------------------------------------------
\* Helpers

Min(a, b) == IF a < b THEN a ELSE b

Call(c, a, n, ok) == [c |-> c, a |-> a, n |-> n, ok |-> ok]

\* n_bytes = spi_flash_get_size() << 17
CapacityOf(size) == size * (2 ^ MegabitShift)

\* spi_flash_read: the n bytes at address a
FlashRead(m, a, n) == [i \in 1..n |-> IF a + i <= Len(m) THEN m[a + i] ELSE ERASED]

\* spi_flash_erase: n bytes at address a become 0xFF
FlashErase(m, a, n) ==
  [i \in 1..Len(m) |-> IF i > a /\ i <= a + n THEN ERASED ELSE m[i]]

\* spi_flash_write: n bytes of src stored at address a
FlashWrite(m, a, src, n) ==
  [i \in 1..Len(m) |-> IF i > a /\ i <= a + n THEN src[i - a] ELSE m[i]]

\* SYS_FS_FileRead: number of bytes delivered for a request of n bytes
FileReadCount(f, pos, n) == Min(n, Len(f) - pos)

\* SYS_FS_FileRead: the buffer after the read (bytes past the count are kept)
FileReadInto(f, pos, buf, n) ==
  [i \in 1..Len(buf) |-> IF i <= FileReadCount(f, pos, n) THEN f[pos + i] ELSE buf[i]]

\* a comparison that stops one byte early
buffers_are_equal_short(buf_a, buf_b, n) == \A i \in 1..(n - 1) : buf_a[i] = buf_b[i]

buffers_are_equal(buf_a, buf_b, n) == \A i \in 1..n : buf_a[i] = buf_b[i]

\* the chunk size of one iteration of the inner loops
ToXfer(n) == IF n > FLASH_SECTOR_SZ THEN FLASH_SECTOR_SZ ELSE n

\* a protection test that misses the first byte of the region
InProtected_late(a) ==
  (a > M2M_PLL_FLASH_OFFSET) /\ (a < M2M_PLL_FLASH_OFFSET + M2M_CONFIG_SECT_TOTAL_SZ)

\* an update_loop that protects nothing
InProtected_never(a) == FALSE

\* the test of update_loop that protects the PLL and GAIN settings
InProtected(a) ==
  (a >= M2M_PLL_FLASH_OFFSET) /\ (a < M2M_PLL_FLASH_OFFSET + M2M_CONFIG_SECT_TOTAL_SZ)

\* an open_winc that does not look at s_winc_is_opened
NeedsDownloadMode_always(opened) == TRUE

\* open_winc: is m2m_wifi_download_mode to be called?
NeedsDownloadMode(opened) == ~opened

\* open_winc: the value of s_winc_is_opened after m2m_wifi_download_mode
\* returned (both branches of the code store true)
OpenedAfter(dl_ok) == IF ~dl_ok THEN TRUE ELSE TRUE

\* the content of a scratch buffer (s_xfer_buf2, buf2) before it is filled
Scratch == [i \in 1..FLASH_SECTOR_SZ |-> 0]

\* winc_sector_read(dst, src_addr) under the outcome rok of spi_flash_read
winc_sector_read(m, dst, a, rok) ==
  IF (a % FLASH_SECTOR_SZ) # 0
    THEN [res |-> "SECTOR_ERROR", buf |-> dst, calls |-> <<>>]
  ELSE IF ~rok
    THEN [res |-> "SECTOR_ERROR", buf |-> dst,
          calls |-> <<Call("read", a, FLASH_SECTOR_SZ, FALSE)>>]
  ELSE [res |-> "SECTOR_OKAY", buf |-> FlashRead(m, a, FLASH_SECTOR_SZ),
        calls |-> <<Call("read", a, FLASH_SECTOR_SZ, TRUE)>>]

\* a winc_sector_write that erases the sector and never writes it
winc_sector_write_noWrite(m, src, a, rok, eok, wok) ==
  LET rd == Call("read", a, FLASH_SECTOR_SZ, rok)
      er == Call("erase", a, FLASH_SECTOR_SZ, eok)
  IN
  IF ~rok
    THEN [res |-> "SECTOR_ERROR", m |-> m, calls |-> <<rd>>]
  ELSE IF buffers_are_equal(src, FlashRead(m, a, FLASH_SECTOR_SZ), FLASH_SECTOR_SZ)
    THEN [res |-> "SECTOR_EQUAL", m |-> m, calls |-> <<rd>>]
  ELSE IF ~eok
    THEN [res |-> "SECTOR_ERROR", m |-> m, calls |-> <<rd, er>>]
  ELSE [res |-> "SECTOR_DIFFER", m |-> FlashErase(m, a, FLASH_SECTOR_SZ),
        calls |-> <<rd, er>>]

\* a winc_sector_write that writes the sector without erasing it
winc_sector_write_noErase(m, src, a, rok, eok, wok) ==
  LET rd == Call("read", a, FLASH_SECTOR_SZ, rok)
      wr == Call("write", a, FLASH_SECTOR_SZ, wok)
  IN
  IF ~rok
    THEN [res |-> "SECTOR_ERROR", m |-> m, calls |-> <<rd>>]
  ELSE IF buffers_are_equal(src, FlashRead(m, a, FLASH_SECTOR_SZ), FLASH_SECTOR_SZ)
    THEN [res |-> "SECTOR_EQUAL", m |-> m, calls |-> <<rd>>]
  ELSE IF ~wok
    THEN [res |-> "SECTOR_ERROR", m |-> m, calls |-> <<rd, wr>>]
  ELSE [res |-> "SECTOR_DIFFER", m |-> FlashWrite(m, a, src, FLASH_SECTOR_SZ),
        calls |-> <<rd, wr>>]

\* a sector write that erases and writes without comparing first
winc_sector_write_always(m, src, a, rok, eok, wok) ==
  LET rd == Call("read", a, FLASH_SECTOR_SZ, rok)
      er == Call("erase", a, FLASH_SECTOR_SZ, eok)
      wr == Call("write", a, FLASH_SECTOR_SZ, wok)
  IN
  IF (a % FLASH_SECTOR_SZ) # 0
    THEN [res |-> "SECTOR_ERROR", m |-> m, calls |-> <<>>]
  ELSE IF ~rok
    THEN [res |-> "SECTOR_ERROR", m |-> m, calls |-> <<rd>>]
  ELSE IF ~eok
    THEN [res |-> "SECTOR_ERROR", m |-> m, calls |-> <<rd, er>>]
  ELSE IF ~wok
    THEN [res |-> "SECTOR_ERROR", m |-> FlashErase(m, a, FLASH_SECTOR_SZ),
          calls |-> <<rd, er, wr>>]
  ELSE [res |-> "SECTOR_DIFFER",
        m |-> FlashWrite(FlashErase(m, a, FLASH_SECTOR_SZ), a, src, FLASH_SECTOR_SZ),
        calls |-> <<rd, er, wr>>]

\* winc_sector_write(src, dst_addr) under the outcomes of spi_flash_read,
\* spi_flash_erase and spi_flash_write
winc_sector_write(m, src, a, rok, eok, wok) ==
  LET rd == Call("read", a, FLASH_SECTOR_SZ, rok)
      er == Call("erase", a, FLASH_SECTOR_SZ, eok)
      wr == Call("write", a, FLASH_SECTOR_SZ, wok)
  IN
  IF (a % FLASH_SECTOR_SZ) # 0
    THEN [res |-> "SECTOR_ERROR", m |-> m, calls |-> <<>>]
  ELSE IF ~rok
    THEN [res |-> "SECTOR_ERROR", m |-> m, calls |-> <<rd>>]
  ELSE IF buffers_are_equal(src, FlashRead(m, a, FLASH_SECTOR_SZ), FLASH_SECTOR_SZ)
    THEN [res |-> "SECTOR_EQUAL", m |-> m, calls |-> <<rd>>]
  ELSE IF ~eok
    THEN [res |-> "SECTOR_ERROR", m |-> m, calls |-> <<rd, er>>]
  ELSE IF ~wok
    THEN [res |-> "SECTOR_ERROR", m |-> FlashErase(m, a, FLASH_SECTOR_SZ),
          calls |-> <<rd, er, wr>>]
  ELSE [res |-> "SECTOR_DIFFER",
        m |-> FlashWrite(FlashErase(m, a, FLASH_SECTOR_SZ), a, src, FLASH_SECTOR_SZ),
        calls |-> <<rd, er, wr>>]

\* winc3400_pll_table_build: the bytes stored at the start of the sector
\* (scaled to one byte, the echo of the offset it was built from)
PllTable(freqOffset) == <<freqOffset % 2>>

\* an in-RAM sector that is cleared behind the table
WithPllTable_clobber(buf, freqOffset) ==
  [i \in 1..Len(buf) |->
     IF i <= Len(PllTable(freqOffset)) THEN PllTable(freqOffset)[i] ELSE 0]

\* the in-RAM sector after the table was copied over its first bytes
WithPllTable(buf, freqOffset) ==
  [i \in 1..Len(buf) |->
     IF i <= Len(PllTable(freqOffset)) THEN PllTable(freqOffset)[i] ELSE buf[i]]

\* ------------------------------------------------------------------------
\* Initial state: after APP_Initialize (winc_cloner_init has run)

FlashSizes ==
  {n \in 1..MaxFlashSize :
     CapacityOf(n) >= M2M_PLL_FLASH_OFFSET + M2M_CONFIG_SECT_TOTAL_SZ}

\* flash images: sector k holds the two low bits of k + 1 + seed
ImageByte(seed, i) ==
  LET v == ((i \div FLASH_SECTOR_SZ) + 1 + seed) % 4
  IN IF i % FLASH_SECTOR_SZ = 0 THEN v \div 2 ELSE v % 2

Images(size) ==
  {[i \in 1..CapacityOf(size) |-> ImageByte(seed, i - 1)] : seed \in BYTE}

\* files: every sector-sized chunk is the sector of one of the flash images
\* for that address, and the file ends after any number of bytes
Files ==
  UNION {{[i \in 1..n |-> ImageByte(mix[((i - 1) \div FLASH_SECTOR_SZ) + 1], i - 1)] :
            mix \in [1..((n + FLASH_SECTOR_SZ - 1) \div FLASH_SECTOR_SZ) -> BYTE]} :
         n \in 0..MaxFileLen}

Init ==
  /\ flash_size \in FlashSizes
  /\ medium \in Images(flash_size)
  /\ file \in Files
  /\ efuse \in BYTE
  /\ s_winc_is_opened = FALSE
  /\ s_xfer_buf = [i \in 1..FLASH_SECTOR_SZ |-> 0]
  /\ pc = "ready"
  /\ op = "none"
  /\ n_bytes = 0
  /\ addr = 0
  /\ fpos = 0
  /\ fopen = FALSE
  /\ ret = FALSE
  /\ log = <<>>
  /\ report = <<>>
  /\ medium0 = medium
  /\ dl_calls = 0
  /\ prev = [op |-> "none", ret |-> FALSE, rewrote |-> FALSE, entered |-> FALSE]
  /\ nops = 0
  /\ syn_pc = "idle" /\ syn_null = FALSE /\ syn_freqOffset = 0 /\ syn_ret = 0
  /\ syn_i32 = 0 /\ syn_buf = <<>> /\ syn_calls = 0
  /\ syn_prev = [arg |-> 0, buf |-> <<>>]
  /\ TaskAtRest

\* ------------------------------------------------------------------------
\* Actions

\* the outcomes of m2m_wifi_download_mode to consider: it can succeed or
\* fail when it is called, and it has no outcome when it is not called
DlOutcomes(opened) == IF NeedsDownloadMode(opened) THEN BOOLEAN ELSE {TRUE}

\* open_winc under the outcome dl_ok of m2m_wifi_download_mode
open_winc(opened, dl_ok) ==
  IF NeedsDownloadMode(opened)
    THEN [opened |-> OpenedAfter(dl_ok), n |-> 1,
          calls |-> <<Call("download_mode", 0, 0, dl_ok)>>]
    ELSE [opened |-> opened, n |-> 0, calls |-> <<>>]

\* bookkeeping common to the start of every operation
Begin(o) ==
  /\ pc = "ready"
  /\ nops < MaxOps
  /\ nops' = nops + 1
  /\ op' = o
  /\ prev' = [op |-> op, ret |-> ret,
               rewrote |-> \E i \in DOMAIN log : log[i].c = "write" /\ log[i].ok,
               entered |-> \E i \in DOMAIN log : log[i].c = "download_mode" /\ log[i].ok]
  /\ medium0' = medium
  /\ UNCHANGED synvars
  /\ UNCHANGED taskvars

\* a return that leaves the file open when the inner loop failed
Return_leak(r, calls) ==
  /\ pc' = "ready"
  /\ ret' = r
  /\ fopen' = (fopen /\ ~r)
  /\ log' = IF fopen /\ r THEN log \o calls \o <<Call("fclose", 0, 0, TRUE)>>
                           ELSE log \o calls

\* the operation returns r; cloner_aux has closed the file if it was open
Return(r, calls) ==
  /\ pc' = "ready"
  /\ ret' = r
  /\ fopen' = FALSE
  /\ log' = IF fopen THEN log \o calls \o <<Call("fclose", 0, 0, TRUE)>>
                      ELSE log \o calls

\* cloner_aux up to the call of inner_loop, for winc_cloner_extract,
\* winc_cloner_update and winc_cloner_compare
Start(o) ==
  /\ Begin(o)
  /\ \E dl_ok \in DlOutcomes(s_winc_is_opened), fok \in BOOLEAN :
       LET w == open_winc(s_winc_is_opened, dl_ok)
           size == Call("get_size", 0, 0, TRUE)
           cap == CapacityOf(flash_size)
       IN
       /\ s_winc_is_opened' = w.opened
       /\ dl_calls' = dl_calls + w.n
       /\ report' = <<>>
       /\ addr' = 0
       /\ fpos' = 0
       /\ IF ~w.opened
            THEN /\ pc' = "ready" /\ ret' = FALSE /\ fopen' = FALSE
                 /\ log' = w.calls
                 /\ UNCHANGED <<n_bytes, file>>
          ELSE IF ~fok
            THEN /\ pc' = "ready" /\ ret' = FALSE /\ fopen' = FALSE
                 /\ log' = w.calls \o <<size, Call("fopen", 0, 0, FALSE)>>
                 /\ n_bytes' = cap
                 /\ UNCHANGED file
          ELSE /\ n_bytes' = cap
               /\ file' = IF o = "extract" THEN <<>> ELSE file
               /\ IF cap > 0
                    THEN /\ pc' = "loop" /\ fopen' = TRUE /\ UNCHANGED ret
                         /\ log' = w.calls \o <<size, Call("fopen", 0, 0, TRUE)>>
                    ELSE /\ pc' = "ready" /\ ret' = TRUE /\ fopen' = FALSE
                         /\ log' = w.calls \o <<size, Call("fopen", 0, 0, TRUE),
                                                Call("fclose", 0, 0, TRUE)>>
  /\ UNCHANGED <<flash_size, medium, efuse, s_xfer_buf>>

winc_cloner_extract == Start("extract")
winc_cloner_update == Start("update")
winc_cloner_compare == Start("compare")

\* an address advanced by one byte instead of one chunk
NextAddr_byte(a, to_xfer) == a + 1

\* an address that is not advanced
NextAddr_stuck(a, to_xfer) == a

\* an address advanced by two chunks
NextAddr_skip(a, to_xfer) == a + to_xfer + to_xfer

\* src_addr += to_xfer, dst_addr += to_xfer
NextAddr(a, to_xfer) == a + to_xfer

\* an extract_loop that hands one byte less to SYS_FS_FileWrite
ExtractChunk_short(buf, to_xfer) == SubSeq(buf, 1, to_xfer - 1)

\* the bytes of s_xfer_buf that extract_loop hands to SYS_FS_FileWrite
ExtractChunk(buf, to_xfer) == SubSeq(buf, 1, to_xfer)

\* the end of one iteration: advance to the next sector, leave the loop and
\* return true when no bytes are left
Advance(to_xfer, calls, sym) ==
  /\ n_bytes' = n_bytes - to_xfer
  /\ addr' = NextAddr(addr, to_xfer)
  /\ report' = Append(report, [a |-> addr, n |-> to_xfer, s |-> sym])
  /\ IF n_bytes - to_xfer > 0
       THEN /\ log' = log \o calls
            /\ UNCHANGED <<pc, ret, fopen>>
       ELSE Return(TRUE, calls)

\* an error in the loop body that is skipped: the loop goes on with the next
\* sector
Abort_skip(calls) == Advance(ToXfer(n_bytes), calls, "x")

\* an error in the loop body: return false
Abort(calls) ==
  /\ Return(FALSE, calls)
  /\ UNCHANGED <<n_bytes, addr, report>>

\* one iteration of extract_loop
extract_loop ==
  /\ pc = "loop" /\ op = "extract"
  /\ \E fail \in {"none", "read", "fwrite"} :
       LET to_xfer == ToXfer(n_bytes)
           rok == fail # "read"
           wok == fail # "fwrite"
           r == winc_sector_read(medium, s_xfer_buf, addr, rok)
       IN
       /\ s_xfer_buf' = r.buf
       /\ IF r.res # "SECTOR_OKAY"
            THEN Abort(r.calls) /\ UNCHANGED <<file, fpos>>
          ELSE IF ~wok
            THEN /\ Abort(r.calls \o <<Call("fwrite", fpos, to_xfer, FALSE)>>)
                 /\ UNCHANGED <<file, fpos>>
          ELSE /\ file' = file \o ExtractChunk(r.buf, to_xfer)
               /\ fpos' = fpos + to_xfer
               /\ Advance(to_xfer, r.calls \o <<Call("fwrite", fpos, to_xfer, TRUE)>>, ".")
  /\ UNCHANGED <<flash_size, medium, efuse, s_winc_is_opened, op, medium0,
                 dl_calls, prev, nops>>
  /\ UNCHANGED synvars
  /\ UNCHANGED taskvars

\* the result of the sector step of update_loop for the chunk at address a
update_sector(m, buf, a, rok, eok, wok) ==
  IF InProtected(a)
    THEN [res |-> "SECTOR_SKIPPED", m |-> m, calls |-> <<>>]
    ELSE winc_sector_write(m, buf, a, rok, eok, wok)

\* the symbol printed for a sector result
Symbol(res) ==
  CASE res = "SECTOR_EQUAL" -> "="
    [] res = "SECTOR_DIFFER" -> "!"
    [] res = "SECTOR_SKIPPED" -> "x"
    [] OTHER -> "?"

\* one iteration of update_loop
update_loop ==
  /\ pc = "loop" /\ op = "update"
  /\ \E fail \in {"none", "fread", "read", "erase", "write"} :
       LET to_xfer == ToXfer(n_bytes)
           fok == fail # "fread"
           rok == fail # "read"
           eok == fail # "erase"
           wok == fail # "write"
           cnt == FileReadCount(file, fpos, to_xfer)
           buf == FileReadInto(file, fpos, s_xfer_buf, to_xfer)
           w == update_sector(medium, buf, addr, rok, eok, wok)
       IN
       IF ~fok
         THEN /\ Abort(<<Call("fread", fpos, 0, FALSE)>>)
              /\ UNCHANGED <<s_xfer_buf, fpos, medium>>
         ELSE /\ s_xfer_buf' = buf
              /\ fpos' = fpos + cnt
              /\ medium' = w.m
              /\ IF w.res = "SECTOR_ERROR"
                   THEN Abort(<<Call("fread", fpos, cnt, TRUE)>> \o w.calls)
                   ELSE Advance(to_xfer, <<Call("fread", fpos, cnt, TRUE)>> \o w.calls,
                                Symbol(w.res))
  /\ UNCHANGED <<flash_size, file, efuse, s_winc_is_opened, op, medium0,
                 dl_calls, prev, nops>>
  /\ UNCHANGED synvars
  /\ UNCHANGED taskvars

\* a compare_loop that rewrites the sector it compares
compare_sector_writes(m, buf, a, to_xfer, rok) ==
  LET w == winc_sector_write(m, buf, a, rok, TRUE, TRUE)
  IN [res |-> IF w.res = "SECTOR_ERROR" THEN "SECTOR_ERROR" ELSE "SECTOR_OKAY",
      m |-> w.m, calls |-> w.calls,
      sym |-> IF w.res = "SECTOR_EQUAL" THEN "=" ELSE "!"]

\* a compare_loop that fails when the sector differs
compare_sector_strict(m, buf, a, to_xfer, rok) ==
  LET r == winc_sector_read(m, Scratch, a, rok)
  IN [res |-> IF r.res = "SECTOR_OKAY" /\ buffers_are_equal(buf, r.buf, to_xfer)
                THEN "SECTOR_OKAY" ELSE "SECTOR_ERROR",
      m |-> m, calls |-> r.calls, sym |-> "="]

\* the sector step of compare_loop for the chunk at address a: the flash
\* sector is read into s_xfer_buf2 and compared with the file chunk in buf
compare_sector(m, buf, a, to_xfer, rok) ==
  LET r == winc_sector_read(m, Scratch, a, rok)
  IN [res |-> r.res, m |-> m, calls |-> r.calls,
      sym |-> IF buffers_are_equal(buf, r.buf, to_xfer) THEN "=" ELSE "!"]

\* one iteration of compare_loop
compare_loop ==
  /\ pc = "loop" /\ op = "compare"
  /\ \E fail \in {"none", "fread", "read"} :
       LET to_xfer == ToXfer(n_bytes)
           fok == fail # "fread"
           rok == fail # "read"
           cnt == FileReadCount(file, fpos, to_xfer)
           buf == FileReadInto(file, fpos, s_xfer_buf, to_xfer)
           r == compare_sector(medium, buf, addr, to_xfer, rok)
       IN
       IF ~fok
         THEN /\ Abort(<<Call("fread", fpos, 0, FALSE)>>)
              /\ UNCHANGED <<s_xfer_buf, fpos, medium>>
         ELSE /\ s_xfer_buf' = buf
              /\ fpos' = fpos + cnt
              /\ medium' = r.m
              /\ IF r.res # "SECTOR_OKAY"
                   THEN Abort(<<Call("fread", fpos, cnt, TRUE)>> \o r.calls)
                   ELSE Advance(to_xfer, <<Call("fread", fpos, cnt, TRUE)>> \o r.calls,
                                r.sym)
  /\ UNCHANGED <<flash_size, file, efuse, s_winc_is_opened, op, medium0,
                 dl_calls, prev, nops>>
  /\ UNCHANGED synvars
  /\ UNCHANGED taskvars

\* a rebuild that goes on after read_efuse_struct failed
efuse_failed_ignored(cal_ok) == FALSE

\* winc_cloner_rebuild_pll: read_efuse_struct(...) != EFUSE_SUCCESS
efuse_failed(cal_ok) == ~cal_ok

\* winc_cloner_rebuild_pll, the whole call ("up to date" is reported as "=",
\* "updated" as "!")
winc_cloner_rebuild_pll ==
  /\ Begin("rebuild")
  /\ \E dl_ok \in DlOutcomes(s_winc_is_opened),
        fail \in {"none", "read1", "efuse", "read", "erase", "write"} :
       LET r1ok == fail # "read1"
           cal_ok == fail # "efuse"
           rok == fail # "read"
           eok == fail # "erase"
           wok == fail # "write"
           o == open_winc(s_winc_is_opened, dl_ok)
           r == winc_sector_read(medium, s_xfer_buf, M2M_PLL_FLASH_OFFSET, r1ok)
           cal == Call("read_efuse", 0, 0, cal_ok)
           buf == WithPllTable(r.buf, efuse)
           w == winc_sector_write(medium, buf, M2M_PLL_FLASH_OFFSET, rok, eok, wok)
       IN
       /\ s_winc_is_opened' = o.opened
       /\ dl_calls' = dl_calls + o.n
       /\ pc' = "ready"
       /\ IF ~o.opened
            THEN /\ ret' = FALSE /\ log' = o.calls
                 /\ report' = <<>>
                 /\ UNCHANGED <<s_xfer_buf, medium>>
          ELSE IF r.res # "SECTOR_OKAY"
            THEN /\ ret' = FALSE /\ log' = o.calls \o r.calls
                 /\ report' = <<>>
                 /\ s_xfer_buf' = r.buf
                 /\ UNCHANGED medium
          ELSE IF efuse_failed(cal_ok)
            THEN /\ ret' = FALSE /\ log' = o.calls \o r.calls \o <<cal>>
                 /\ report' = <<>>
                 /\ s_xfer_buf' = r.buf
                 /\ UNCHANGED medium
          ELSE /\ s_xfer_buf' = buf
               /\ medium' = w.m
               /\ log' = o.calls \o r.calls \o <<cal>> \o w.calls
               /\ ret' = (w.res # "SECTOR_ERROR")
               /\ report' = IF w.res = "SECTOR_ERROR" THEN <<>>
                             ELSE <<[a |-> M2M_PLL_FLASH_OFFSET, n |-> FLASH_SECTOR_SZ,
                                     s |-> Symbol(w.res)]>>
  /\ UNCHANGED <<flash_size, file, efuse, n_bytes, addr, fpos, fopen>>

Next ==
  \/ winc_cloner_extract
  \/ winc_cloner_update
  \/ winc_cloner_compare
  \/ winc_cloner_rebuild_pll
  \/ extract_loop
  \/ update_loop
  \/ compare_loop

Spec == Init /\ [][Next]_vars

TypeOK ==
  /\ pc \in {"ready", "loop"}
  /\ Len(medium) = CapacityOf(flash_size)
  /\ Len(s_xfer_buf) = FLASH_SECTOR_SZ
  /\ nops <= MaxOps
  /\ syn_pc \in {"idle", "call", "returned"}
  /\ syn_null \in BOOLEAN

\* ------------------------------------------------------------------------
\* The PLL table builder with the sizes of the code (not scaled), run on its
\* own for every value of the 15 bit FreqOffset field of the efuse record

\* sizeof(uint32_t)
SIZEOF_UINT32 == 4

NUM_CHANNELS == 14

NUM_FREQS == 84

\* uint32_t magic[2]
MAGIC_WORDS == 2

\* the uint32_t members of tstrChannelParm
CHANNEL_PARM_WORDS == 8

\* uint16_t FreqOffset:15
FREQ_OFFSET_BITS == 15

sizeof_magic == MAGIC_WORDS * SIZEOF_UINT32

\* a channel table of one word for each channel
sizeof_strChnParm_word == NUM_CHANNELS * SIZEOF_UINT32

sizeof_strChnParm == NUM_CHANNELS * (CHANNEL_PARM_WORDS * SIZEOF_UINT32)

\* a frequency table without the extra entry
sizeof_strFreqParam_noExtra == NUM_FREQS * SIZEOF_UINT32

\* uint32_t strFreqParam[NUM_FREQS + 1]
sizeof_strFreqParam == (NUM_FREQS + 1) * SIZEOF_UINT32

\* 1 << 14 and 1 << 15 of the sign extension
XO_HALF == 2 ^ 14

XO_RANGE == 2 ^ 15

\* a sign extension that takes bit 14 as the sign bit
i32xo_offset_bit14(freqOffset) ==
  IF freqOffset >= XO_HALF THEN freqOffset - XO_RANGE ELSE freqOffset

\* i32xo_offset = (freqOffset > (1 << 14)) ? freqOffset - (1 << 15) : freqOffset
\* (the difference is taken in uint32_t and converted to int32_t, which is the
\* mathematical difference for the arguments below 2^31 used here)
i32xo_offset(freqOffset) ==
  IF freqOffset > XO_HALF THEN freqOffset - XO_RANGE ELSE freqOffset

\* the value winc3400_pll_table_build(pBuffer, freqOffset) returns
winc3400_pll_table_build_ret(isNull, freqOffset) ==
  IF isNull THEN -1
  ELSE sizeof_magic + sizeof_strChnParm + sizeof_strFreqParam

\* the values of efuseStruct.FreqOffset
FreqOffsets == 0..(2 ^ FREQ_OFFSET_BITS - 1)

\* the builder is entered with any offset, with or without a buffer; the
\* engine is at rest
SynthInit ==
  /\ flash_size = 0
  /\ medium = <<>>
  /\ file = <<>>
  /\ efuse = 0
  /\ s_winc_is_opened = FALSE
  /\ s_xfer_buf = [i \in 1..FLASH_SECTOR_SZ |-> 0]
  /\ pc = "ready"
  /\ op = "none"
  /\ n_bytes = 0
  /\ addr = 0
  /\ fpos = 0
  /\ fopen = FALSE
  /\ ret = FALSE
  /\ log = <<>>
  /\ report = <<>>
  /\ medium0 = medium
  /\ dl_calls = 0
  /\ prev = [op |-> "none", ret |-> FALSE, rewrote |-> FALSE, entered |-> FALSE]
  /\ nops = 0
  /\ syn_pc = "call"
  /\ syn_null \in BOOLEAN
  /\ syn_freqOffset \in FreqOffsets
  /\ syn_ret = 0
  /\ syn_i32 = 0 /\ syn_buf = <<>> /\ syn_calls = 0
  /\ syn_prev = [arg |-> 0, buf |-> <<>>]
  /\ TaskAtRest

\* one call of winc3400_pll_table_build: the value returned and the signed
\* offset (the words written to the buffer are followed in TableSpec)
winc3400_pll_table_build ==
  /\ syn_pc = "call"
  /\ syn_pc' = "returned"
  /\ syn_ret' = winc3400_pll_table_build_ret(syn_null, syn_freqOffset)
  /\ syn_i32' = IF syn_null THEN syn_i32 ELSE i32xo_offset(syn_freqOffset)
  /\ UNCHANGED <<syn_null, syn_freqOffset, syn_buf, syn_prev, syn_calls>>
  /\ UNCHANGED <<flash_size, medium, file, efuse, s_winc_is_opened, s_xfer_buf,
                 pc, op, n_bytes, addr, fpos, fopen, ret, log, report, medium0,
                 dl_calls, prev, nops>>
  /\ UNCHANGED taskvars

SynthNext == winc3400_pll_table_build

SynthSpec == SynthInit /\ [][SynthNext]_vars

\* ------------------------------------------------------------------------
\* The words that winc3400_pll_table_build writes to the buffer.
\*
\* A uint32_t is the pair [hi, lo] of its 16 bit halves.  The doubles of the
\* code are followed as exact fractions: xo_to_VCO = 2 * 26.0 * (1 +
\* (i32xo_offset / 64) / 1000000) is the fraction VcoNum / VcoDen, and the
\* quotients are computed by binary long division so that every intermediate
\* value stays below 2^31.  The six words WlanRx1..WlanTx3 of a channel depend
\* on the last bits of the double arithmetic; their values are not computed,
\* the table holds for them the frequency and the signed offset they are
\* computed from.

PLL_MAGIC_HI == 4660       \* 0x1234

PLL_MAGIC_LO == 22133      \* 0x5675

\* 2 * 26.0
VCO_REF == 52

\* (1 << 6) * 1000000.0
XO_UNITS == 64000000

\* lo_actual / 80.0
PLL4_DIV == 80

\* 1 << 19
FRAC_ONE == 524288

\* the mask 0x1ff and one more
INT_MASK_P1 == 512

CHANNEL_LO_FIRST == 4824

CHANNEL_LO_STEP == 10

CHANNEL_LO_13 == 4968

FREQ_LO_FIRST == 3840

FREQ_LO_STEP == 2

FREQ_LO_1 == 4802

\* xo_to_VCO as a fraction in lowest terms of the factor 4
VcoNum(xo) == (VCO_REF \div 4) * (XO_UNITS + xo)

VcoDen == XO_UNITS \div 4

\* quotient and remainder of x * c by d, by the bits of x
RECURSIVE MulDiv(_, _, _)
MulDiv(x, c, d) ==
  IF x = 0 THEN [q |-> 0, r |-> 0]
  ELSE LET h == MulDiv(x \div 2, c, d)
           t == 2 * h.r + (x % 2) * c
       IN [q |-> 2 * h.q + (t \div d), r |-> t % d]

\* quotient and remainder of (qr.q * d + qr.r) * 2^n by d
RECURSIVE ShiftDiv(_, _, _)
ShiftDiv(qr, d, n) ==
  IF n = 0 THEN qr
  ELSE LET h == ShiftDiv(qr, d, n - 1)
           t == 2 * h.r
       IN [q |-> 2 * h.q + (t \div d), r |-> t % d]

\* n2 = (uint32_t)(lo / xo_to_VCO) and
\* f = (uint32_t)(((lo / xo_to_VCO) - n2) * (1 << 19) + 0.5)
IntFrac(lo, xo) ==
  LET d == VcoNum(xo)
      s == ShiftDiv(MulDiv(lo, VcoDen, d), d, 19)
      n2 == s.q \div FRAC_ONE
      up == IF 2 * s.r >= d THEN 1 ELSE 0
  IN [n |-> n2, f |-> (s.q - n2 * FRAC_ONE) + up]

\* m = (uint32_t)(lo_actual / 80.0) and
\* g = (uint32_t)((lo_actual / 80.0 - m) * (1 << 19)), with
\* lo_actual = xo_to_VCO * (n2 + f / (1 << 19))
IntFrac4(nf, xo) ==
  LET d == VcoNum(xo)
      k == nf.n * FRAC_ONE + nf.f
      dd == (VcoDen * PLL4_DIV) \div 4
      h == MulDiv(k, d \div 4, dd)
      e == ((d % 4) * k) \div 4
      G == h.q + ((h.r + e) \div dd)
  IN [n |-> G \div FRAC_ONE, f |-> G % FRAC_ONE]

\* ((n & 0x1ff) << 19) | ((f & 0x7ffff) << 0)
PackWord(nf) ==
  [hi |-> (nf.n % INT_MASK_P1) * 8 + ((nf.f % FRAC_ONE) \div 65536),
   lo |-> nf.f % 65536]

\* a word whose enable bit is left clear
SetBit31_not(w) == w

\* val32 |= (1ul << 31)
SetBit31(w) == [w EXCEPT !.hi = (w.hi % 32768) + 32768]

\* val32 &= ~(1ul << 28)
ClearBit28(w) == [w EXCEPT !.hi = w.hi - ((w.hi \div 4096) % 2) * 4096]

\* a channel loop without the assignment for ch == 13
ChannelLo_progression(ch) == CHANNEL_LO_FIRST + CHANNEL_LO_STEP * ch

\* the frequency of the channel loop, for (ch = 0, lo = 4824.0; ...; lo += 10)
\* with lo = 4968.0 for ch == 13
RECURSIVE ChannelLo(_)
ChannelLo(ch) ==
  IF ch = 13 THEN CHANNEL_LO_13
  ELSE IF ch = 0 THEN CHANNEL_LO_FIRST
  ELSE ChannelLo(ch - 1) + CHANNEL_LO_STEP

\* a frequency loop whose override holds for index 1 only
FreqLo_once(freq) ==
  IF freq = 1 THEN FREQ_LO_1 ELSE FREQ_LO_FIRST + FREQ_LO_STEP * freq

\* the frequency of the frequency loop, for (freq = 0, lo = 3840.0; ...;
\* lo += 2) with lo = 4802.0 for freq == 1: the variable lo is set at
\* freq == 1 and stepped from there, so the iterations after it go on from
\* 4802.0 (closed form of the loop, freq - 1 steps after the assignment)
FreqLo(freq) ==
  IF freq = 0 THEN FREQ_LO_FIRST
  ELSE FREQ_LO_1 + FREQ_LO_STEP * (freq - 1)

\* the members of tstrChannelParm in the order of the structure
ChannelFields ==
  <<"u32PllInternal1", "u32PllInternal4", "WlanRx1", "WlanRx2", "WlanRx3",
    "WlanTx1", "WlanTx2", "WlanTx3">>

\* strChnParm[ch].<field>
ChannelWord(ch, field, xo) ==
  LET lo == ChannelLo(ch)
      nf == IntFrac(lo, xo)
  IN
  IF field = "u32PllInternal1"
    THEN [f |-> field, i |-> ch, w |-> SetBit31(PackWord(nf))]
  ELSE IF field = "u32PllInternal4"
    THEN [f |-> field, i |-> ch, w |-> ClearBit28(PackWord(IntFrac4(nf, xo)))]
  ELSE [f |-> field, i |-> ch, w |-> [of |-> lo, xo |-> xo]]

\* strFreqParam[freq]
FreqWord(freq, xo) ==
  [f |-> "strFreqParam", i |-> freq, w |-> PackWord(IntFrac(FreqLo(freq), xo))]

\* a second header word that holds the sign extended offset (as uint32_t)
EchoWord_signed(freqOffset) ==
  LET v == i32xo_offset(freqOffset) IN
  IF v < 0 THEN [hi |-> 65535 - ((-v - 1) \div 65536), lo |-> 65535 - ((-v - 1) % 65536)]
           ELSE [hi |-> v \div 65536, lo |-> v % 65536]

\* magic[1] = freqOffset
EchoWord(freqOffset) == [hi |-> freqOffset \div 65536, lo |-> freqOffset % 65536]

\* the words copied to pBuffer: magic, strChnParm, strFreqParam
PllTableWords(freqOffset) ==
  LET xo == i32xo_offset(freqOffset)
      chn == [k \in 1..(NUM_CHANNELS * CHANNEL_PARM_WORDS) |->
                ChannelWord((k - 1) \div CHANNEL_PARM_WORDS,
                            ChannelFields[((k - 1) % CHANNEL_PARM_WORDS) + 1], xo)]
      frq == [k \in 1..(NUM_FREQS + 1) |-> FreqWord(k - 1, xo)]
  IN
  <<[f |-> "magic", i |-> 0, w |-> [hi |-> PLL_MAGIC_HI, lo |-> PLL_MAGIC_LO]],
    [f |-> "magic", i |-> 1, w |-> EchoWord(freqOffset)]>> \o chn \o frq

\* ------------------------------------------------------------------------
\* The table builder called several times in a row, with the words it writes

MaxBuilds == 2         \* calls of the table builder in one run

\* the arguments tried: the ends and the middle of the 15 bit field, and the
\* same values with bit 15 set
TableArgs ==
  LET raw == {0, 1, XO_HALF, XO_HALF + 1, XO_RANGE - 1}
  IN raw \cup {r + XO_RANGE : r \in raw}

TableInit ==
  /\ flash_size = 0
  /\ medium = <<>>
  /\ file = <<>>
  /\ efuse = 0
  /\ s_winc_is_opened = FALSE
  /\ s_xfer_buf = [i \in 1..FLASH_SECTOR_SZ |-> 0]
  /\ pc = "ready"
  /\ op = "none"
  /\ n_bytes = 0
  /\ addr = 0
  /\ fpos = 0
  /\ fopen = FALSE
  /\ ret = FALSE
  /\ log = <<>>
  /\ report = <<>>
  /\ medium0 = medium
  /\ dl_calls = 0
  /\ prev = [op |-> "none", ret |-> FALSE, rewrote |-> FALSE, entered |-> FALSE]
  /\ nops = 0
  /\ syn_pc = "idle"
  /\ syn_null = FALSE
  /\ syn_freqOffset = 0
  /\ syn_ret = 0
  /\ syn_i32 = 0 /\ syn_buf = <<>> /\ syn_calls = 0
  /\ syn_prev = [arg |-> 0, buf |-> <<>>]
  /\ TaskAtRest

\* one whole call of winc3400_pll_table_build with a buffer
pll_table_build_call ==
  /\ syn_calls < MaxBuilds
  /\ \E freqOffset \in TableArgs :
       /\ syn_freqOffset' = freqOffset
       /\ syn_i32' = i32xo_offset(freqOffset)
       /\ syn_buf' = PllTableWords(freqOffset)
       /\ syn_ret' = winc3400_pll_table_build_ret(FALSE, freqOffset)
  /\ syn_prev' = [arg |-> syn_freqOffset, buf |-> syn_buf]
  /\ syn_calls' = syn_calls + 1
  /\ syn_pc' = "returned"
  /\ UNCHANGED syn_null
  /\ UNCHANGED enginevars
  /\ UNCHANGED taskvars

TableNext == pll_table_build_call

TableSpec == TableInit /\ [][TableNext]_vars

\* ------------------------------------------------------------------------
\* The application task (app.c) and the command task (cmd_task.c) with the
\* directory reader (dir_reader.c) and the line reader (line_reader.c).  One
\* action is one call of APP_Tasks, with the call of cmd_task_step and of
\* dir_reader_step or line_reader_step it makes.  cmd_task reads nothing of
\* the state of the engine and ignores what the engine operations return, so
\* here a call of an engine entry point is recorded in ct_call with either
\* return value; what the operation does is followed in Spec.

MaxDirLen == 3         \* most entries in the root directory of the card
MaxCmds == 2           \* command characters taken in one run
MaxRead == 2           \* most characters delivered by one console read
MaxConErrs == 1        \* most errors returned by the console in one run
MaxMountRetries == 2   \* most calls of SYS_FS_Mount in one run

\* the files that may be on the card, in the order of the directory: three
\* images and a file with another extension
CardFiles ==
  <<(<<"a">> \o IMAGE_EXTENSION), <<"a", ".", "t", "x", "t">>,
    (<<"b">> \o IMAGE_EXTENSION), (<<"c">> \o IMAGE_EXTENSION)>>

Names == {CardFiles[i] : i \in DOMAIN CardFiles}

\* the directories of at most MaxDirLen of these files
Dirs ==
  {[k \in 1..Cardinality(S) |->
      CardFiles[CHOOSE i \in S : Cardinality({j \in S : j < i}) = k - 1]] :
     S \in {T \in SUBSET DOMAIN CardFiles : Cardinality(T) <= MaxDirLen}}

\* static bool string_ends_with(str, suffix), for strings that are not NULL
string_ends_with(str, suffix) ==
  IF Len(str) < Len(suffix) THEN FALSE
  ELSE SubSeq(str, Len(str) - Len(suffix) + 1, Len(str)) = suffix

\* dir_reader_filename_ref(idx) when the file count is file_count: the offset
\* of the slot in s_filenames, or NULL
dir_reader_filename_ref(idx, file_count) ==
  IF idx < file_count THEN idx * MAX_FILENAME_LENGTH ELSE NULL

\* a destination computed before the count is incremented
StoreDest_late(file_count) == dir_reader_filename_ref(file_count, file_count)

\* the destination of the store dir_reader_filename_ref(file_count++): the
\* argument is the count before the increment, and the increment (of a
\* uint8_t) has taken place when the body of the function runs
StoreDest(file_count) ==
  dir_reader_filename_ref(file_count, (file_count + 1) % (2 ^ UINT8_BITS))

\* strncpy(&table[dest], src, n): the characters of src, at most n of them,
\* then NULs up to n characters in all
strncpy(table, dest, src, n) ==
  [i \in DOMAIN table |->
     IF i > dest /\ i <= dest + n
     THEN (IF i - dest <= Len(src) THEN src[i - dest] ELSE NUL)
     ELSE table[i]]

\* the outcomes of SYS_FS_DirRead: a failure, the end of the directory (both
\* names empty) or the next entry
DirReads ==
  {[res |-> "FAILURE", fname |-> <<>>]} \cup
  {IF dir_pos < Len(dir) THEN [res |-> "SUCCESS", fname |-> dir[dir_pos + 1]]
   ELSE [res |-> "SUCCESS", fname |-> <<>>]}

dir_reader_read_directory_once ==
  dr_state' = IF dr_state = "IDLE" THEN "OPENING_DIRECTORY" ELSE dr_state

\* dir_reader_read_directory()
dir_reader_read_directory == dr_state' = "OPENING_DIRECTORY"

dir_reader_step_noLimit ==
  CASE dr_state = "OPENING_DIRECTORY" ->
         /\ dr_file_count' = 0
         /\ s_filenames' = [i \in DOMAIN s_filenames |-> NUL]
         /\ dr_stores' = <<>>
         /\ dir_pos' = 0
         /\ \E ok \in BOOLEAN :
              /\ dr_dir_handle' = IF ok THEN "open" ELSE "INVALID"
              /\ dr_state' = IF ok THEN "READING_DIRECTORY" ELSE "ERROR"
    [] dr_state = "READING_DIRECTORY" ->
         \E r \in DirReads :
           IF r.res = "FAILURE"
           THEN /\ dr_state' = "ERROR"
                /\ UNCHANGED <<dr_file_count, s_filenames, dr_stores, dir_pos,
                               dr_dir_handle>>
           ELSE IF r.fname = <<>>
           THEN /\ dr_state' = "CLOSING_DIRECTORY"
                /\ UNCHANGED <<dr_file_count, s_filenames, dr_stores, dir_pos,
                               dr_dir_handle>>
           ELSE /\ dir_pos' = dir_pos + 1
                /\ UNCHANGED <<dr_state, dr_dir_handle>>
                /\ IF string_ends_with(r.fname, IMAGE_EXTENSION)
                   THEN LET dest == StoreDest(dr_file_count)
                        IN /\ dr_file_count' = (dr_file_count + 1) % (2 ^ UINT8_BITS)
                           /\ dr_stores' = Append(dr_stores,
                                                  [dest |-> dest, name |-> r.fname])
                           \* a copy through the null pointer leaves the table
                           /\ s_filenames' =
                                IF dest = NULL THEN s_filenames
                                ELSE strncpy(s_filenames, dest, r.fname,
                                             MAX_FILENAME_LENGTH)
                   ELSE UNCHANGED <<dr_file_count, s_filenames, dr_stores>>
    [] dr_state = "CLOSING_DIRECTORY" ->
         /\ dr_dir_handle' = "INVALID"
         /\ dr_state' = "COMPLETE"
         /\ UNCHANGED <<dr_file_count, s_filenames, dr_stores, dir_pos>>
    [] OTHER ->
         UNCHANGED <<dr_state, dr_file_count, s_filenames, dr_stores, dir_pos,
                     dr_dir_handle>>


\* one call of dir_reader_step()
dir_reader_step ==
  CASE dr_state = "OPENING_DIRECTORY" ->
         /\ dr_file_count' = 0
         /\ s_filenames' = [i \in DOMAIN s_filenames |-> NUL]
         /\ dr_stores' = <<>>
         /\ dir_pos' = 0
         /\ \E ok \in BOOLEAN :
              /\ dr_dir_handle' = IF ok THEN "open" ELSE "INVALID"
              /\ dr_state' = IF ok THEN "READING_DIRECTORY" ELSE "ERROR"
    [] dr_state = "READING_DIRECTORY" ->
         \E r \in DirReads :
           IF r.res = "FAILURE"
           THEN /\ dr_state' = "ERROR"
                /\ UNCHANGED <<dr_file_count, s_filenames, dr_stores, dir_pos,
                               dr_dir_handle>>
           ELSE IF r.fname = <<>>
           THEN /\ dr_state' = "CLOSING_DIRECTORY"
                /\ UNCHANGED <<dr_file_count, s_filenames, dr_stores, dir_pos,
                               dr_dir_handle>>
           ELSE /\ dir_pos' = dir_pos + 1
                /\ UNCHANGED <<dr_state, dr_dir_handle>>
                /\ IF string_ends_with(r.fname, IMAGE_EXTENSION)
                      /\ dr_file_count < MAX_IMG_FILENAMES
                   THEN LET dest == StoreDest(dr_file_count)
                        IN /\ dr_file_count' = (dr_file_count + 1) % (2 ^ UINT8_BITS)
                           /\ dr_stores' = Append(dr_stores,
                                                  [dest |-> dest, name |-> r.fname])
                           \* a copy through the null pointer leaves the table
                           /\ s_filenames' =
                                IF dest = NULL THEN s_filenames
                                ELSE strncpy(s_filenames, dest, r.fname,
                                             MAX_FILENAME_LENGTH)
                   ELSE UNCHANGED <<dr_file_count, s_filenames, dr_stores>>
    [] dr_state = "CLOSING_DIRECTORY" ->
         /\ dr_dir_handle' = "INVALID"
         /\ dr_state' = "COMPLETE"
         /\ UNCHANGED <<dr_file_count, s_filenames, dr_stores, dir_pos>>
    [] OTHER ->
         UNCHANGED <<dr_state, dr_file_count, s_filenames, dr_stores, dir_pos,
                     dr_dir_handle>>

\* the string that starts at offset off of a character table
CString(table, off) ==
  LET ends == {i \in (off + 1)..Len(table) : table[i] = NUL}
      e == IF ends = {} THEN Len(table) + 1
           ELSE CHOOSE i \in ends : \A j \in ends : i <= j
  IN SubSeq(table, off + 1, e - 1)

\* a value converted to size_t
ToSizeT(v) == v % (2 ^ SIZE_T_BITS)

\* the command characters and the characters of a line typed on the console
CmdChars == {"h", "e", "u", "c", "r", "x"}
LineChars == {"a", CR, ESC}

\* the outcomes of SYS_CONSOLE_Read(.., buf, size): an error (-1), or up to
\* size characters stored in buf; next is the character the console holds
\* behind them when there were more than size, "none" when there was none
ConsoleReads(alphabet, size) ==
  LET strs == UNION {[1..k -> alphabet] : k \in 0..Min(size, MaxRead)}
  IN (IF con_errs < MaxConErrs
      THEN {[n |-> -1, chars |-> <<>>, next |-> "none"]} ELSE {}) \cup
     {[n |-> Len(s), chars |-> s, next |-> "none"] : s \in strs} \cup
     {[n |-> Len(s), chars |-> s, next |-> nx] :
        s \in {t \in strs : Len(t) = size}, nx \in alphabet}

\* the characters chars stored at offset off of the line buffer; what lands
\* behind the end of the buffer is not part of it
ConsoleStore(buf, off, chars) ==
  [i \in DOMAIN buf |->
     IF i > off /\ i <= off + Len(chars) THEN chars[i - off] ELSE buf[i]]

\* the index of the first '\r', '\n' or '\e' of s, 0 when there is none
FirstTerminator(s) ==
  LET ts == {i \in DOMAIN s : s[i] \in {CR, LF, ESC}}
  IN IF ts = {} THEN 0 ELSE CHOOSE i \in ts : \A j \in ts : i <= j

\* the outcome r of a read of line_reader starts with the character the
\* console held after the read before
ConsoleFollows(r) ==
  \/ con_in.next = "none"
  \/ r.n < 0
  \/ r.chars # <<>> /\ r.chars[1] = con_in.next
  \/ r.chars = <<>> /\ r.next = con_in.next

line_reader_start_once ==
  IF lr_state = "INIT"
  THEN lr_state' = "START_READING" /\ lr_cmd' = ct_cmds + 1
  ELSE UNCHANGED <<lr_state, lr_cmd>>

\* line_reader_start()
line_reader_start == lr_state' = "START_READING" /\ lr_cmd' = ct_cmds + 1

\* one call of line_reader_step().  The loop of AWAIT_LINE looks at n_read
\* characters from dst: known are the characters of the line buffer from dst
\* on or, when dst is behind the buffer, the characters just read; when the
\* loop runs on behind them without having found a terminator it reads
\* memory that is not the line buffer and may stop on any value found there
line_reader_step ==
  CASE lr_state = "START_READING" ->
         /\ lr_linebuf' = [i \in DOMAIN lr_linebuf |-> NUL]
         /\ lr_n_read' = 0
         /\ lr_state' = "AWAIT_LINE"
         /\ con_err' = "none"
         /\ con_in' = NoInput
         /\ UNCHANGED <<lr_oob, con_errs>>
    [] lr_state = "AWAIT_LINE" ->
         \E r \in {q \in ConsoleReads(LineChars,
                                      ToSizeT(MAX_CHARS - lr_n_read)) :
                    ConsoleFollows(q)} :
           LET n_read == ToSizeT(r.n)
               got == ConsoleStore(lr_linebuf, lr_n_read, r.chars)
               known == IF lr_n_read <= MAX_CHARS
                        THEN SubSeq(got, lr_n_read + 1,
                                    Min(lr_n_read + n_read, MAX_CHARS))
                        ELSE r.chars
               t == FirstTerminator(known)
           IN /\ con_err' = IF r.n < 0 THEN "line_reader" ELSE "none"
              /\ con_in' = [chars |-> r.chars, next |-> r.next]
              /\ con_errs' = IF r.n < 0 THEN con_errs + 1 ELSE con_errs
              /\ IF n_read < 0
                 THEN /\ lr_state' = "ERROR"
                      /\ lr_linebuf' = got
                      /\ UNCHANGED <<lr_n_read, lr_oob>>
                 ELSE IF lr_n_read = MAX_CHARS
                 THEN /\ lr_linebuf' = [got EXCEPT ![MAX_CHARS] = NUL]
                      /\ lr_state' = "SUCCESS"
                      /\ UNCHANGED <<lr_n_read, lr_oob>>
                 ELSE /\ lr_n_read' = (lr_n_read + n_read) % (2 ^ UINT8_BITS)
                      /\ IF t > 0
                         THEN /\ lr_state' = IF known[t] = ESC THEN "ERROR"
                                             ELSE "SUCCESS"
                              /\ lr_linebuf' =
                                   IF lr_n_read + t <= MAX_CHARS
                                   THEN [got EXCEPT ![lr_n_read + t] = NUL]
                                   ELSE got
                              /\ lr_oob' = (lr_oob \/ lr_n_read > MAX_CHARS)
                         ELSE IF n_read > Len(known)
                         THEN /\ lr_state' \in {"AWAIT_LINE", "SUCCESS", "ERROR"}
                              /\ lr_linebuf' = got
                              /\ lr_oob' = TRUE
                         ELSE /\ lr_linebuf' = got
                              /\ lr_oob' = (lr_oob \/ (lr_n_read > MAX_CHARS
                                                        /\ n_read > 0))
                              /\ UNCHANGED lr_state
    [] OTHER ->
         /\ con_err' = "none"
         /\ con_in' = NoInput
         /\ UNCHANGED <<lr_state, lr_linebuf, lr_n_read, lr_oob, con_errs>>

\* the variables of the directory reader and of the line reader
drvars == <<dr_state, dr_file_count, dr_dir_handle, s_filenames, dr_stores,
           dir_pos>>
lrvars == <<lr_state, lr_linebuf, lr_n_read, lr_oob, lr_cmd>>

\* APP_Tasks() in APP_STATE_IDLE
APP_Tasks_IDLE ==
  /\ app_state = "IDLE"
  /\ app_state' = "AWAIT_FILESYSTEM"
  /\ UNCHANGED <<app_mount_retries, fs_mounted, fs_drive>>
  /\ UNCHANGED <<ct_state, ct_cmds, ct_call, ct_ncalls, dir, con_err, con_errs,
                 con_in>>
  /\ UNCHANGED drvars
  /\ UNCHANGED lrvars
  /\ UNCHANGED enginevars
  /\ UNCHANGED synvars

APP_Tasks_AWAIT_FILESYSTEM_anyDrive ==
  /\ app_state = "AWAIT_FILESYSTEM"
  /\ app_mount_retries < MaxMountRetries
  /\ app_mount_retries' = app_mount_retries + 1
  /\ \E mount_ok \in BOOLEAN, drive_ok \in BOOLEAN :
       IF mount_ok
       THEN /\ fs_mounted' = TRUE
            /\ fs_drive' = drive_ok
            /\ app_state' = "PROCESSING_COMMANDS"
       ELSE /\ drive_ok
            /\ UNCHANGED <<app_state, fs_mounted, fs_drive>>
  /\ UNCHANGED <<ct_state, ct_cmds, ct_call, ct_ncalls, dir, con_err, con_errs,
                 con_in>>
  /\ UNCHANGED drvars
  /\ UNCHANGED lrvars
  /\ UNCHANGED enginevars
  /\ UNCHANGED synvars

\* APP_Tasks() in APP_STATE_AWAIT_FILESYSTEM: SYS_FS_Mount is tried once
\* more, and after it SYS_FS_CurrentDriveSet
APP_Tasks_AWAIT_FILESYSTEM ==
  /\ app_state = "AWAIT_FILESYSTEM"
  /\ app_mount_retries < MaxMountRetries
  /\ app_mount_retries' = app_mount_retries + 1
  /\ \E mount_ok \in BOOLEAN, drive_ok \in BOOLEAN :
       IF mount_ok
       THEN /\ fs_mounted' = TRUE
            /\ fs_drive' = drive_ok
            /\ app_state' = IF drive_ok THEN "PROCESSING_COMMANDS" ELSE "ERROR"
       ELSE /\ drive_ok
            /\ UNCHANGED <<app_state, fs_mounted, fs_drive>>
  /\ UNCHANGED <<ct_state, ct_cmds, ct_call, ct_ncalls, dir, con_err, con_errs,
                 con_in>>
  /\ UNCHANGED drvars
  /\ UNCHANGED lrvars
  /\ UNCHANGED enginevars
  /\ UNCHANGED synvars

\* APP_Tasks() in APP_STATE_ERROR: nothing is done
APP_Tasks_ERROR ==
  /\ app_state = "ERROR"
  /\ UNCHANGED vars

AppStep_engineError ==
  /\ app_state = "PROCESSING_COMMANDS"
  /\ app_state' = IF ct_state' = "ERROR" \/ (ct_call' # NoCall /\ ~ct_call'.ret)
                  THEN "ERROR" ELSE app_state
  /\ UNCHANGED <<app_mount_retries, fs_mounted, fs_drive>>

\* APP_Tasks() in APP_STATE_PROCESSING_COMMANDS, around the call of
\* cmd_task_step()
AppStep ==
  /\ app_state = "PROCESSING_COMMANDS"
  /\ app_state' = IF ct_state' = "ERROR" THEN "ERROR" ELSE app_state
  /\ UNCHANGED <<app_mount_retries, fs_mounted, fs_drive>>

\* cmd_task_step() in CMD_TASK_STATE_INIT
cmd_task_INIT ==
  /\ ct_state = "INIT"
  /\ ct_state' = "PRINTING_HELP"
  /\ con_err' = "none"
  /\ con_in' = NoInput
  /\ UNCHANGED con_errs
  /\ ct_call' = NoCall
  /\ UNCHANGED <<ct_cmds, ct_ncalls, dir>>
  /\ UNCHANGED drvars
  /\ UNCHANGED lrvars
  /\ UNCHANGED enginevars
  /\ UNCHANGED synvars
  /\ AppStep

\* cmd_task_step() in CMD_TASK_STATE_PRINTING_HELP
cmd_task_PRINTING_HELP ==
  /\ ct_state = "PRINTING_HELP"
  /\ dir_reader_read_directory
  /\ ct_state' = "READING_DIRECTORY"
  /\ con_err' = "none"
  /\ con_in' = NoInput
  /\ UNCHANGED con_errs
  /\ UNCHANGED <<dr_file_count, dr_dir_handle, s_filenames, dr_stores, dir_pos>>
  /\ ct_call' = NoCall
  /\ UNCHANGED <<ct_cmds, ct_ncalls, dir>>
  /\ UNCHANGED lrvars
  /\ UNCHANGED enginevars
  /\ UNCHANGED synvars
  /\ AppStep

\* cmd_task_step() in CMD_TASK_STATE_READING_DIRECTORY
cmd_task_READING_DIRECTORY ==
  /\ ct_state = "READING_DIRECTORY"
  /\ dir_reader_step
  /\ ct_state' = IF dr_state' = "COMPLETE" THEN "LISTING_DIRECTORY"
                 ELSE IF dr_state' = "ERROR" THEN "ERROR"
                 ELSE ct_state
  /\ con_err' = "none"
  /\ con_in' = NoInput
  /\ UNCHANGED con_errs
  /\ ct_call' = NoCall
  /\ UNCHANGED <<ct_cmds, ct_ncalls, dir>>
  /\ UNCHANGED lrvars
  /\ UNCHANGED enginevars
  /\ UNCHANGED synvars
  /\ AppStep

\* cmd_task_step() in CMD_TASK_STATE_LISTING_DIRECTORY: the names are printed
\* and the pending console input is dropped
cmd_task_LISTING_DIRECTORY ==
  /\ ct_state = "LISTING_DIRECTORY"
  /\ ct_state' = "AWAIT_COMMAND"
  /\ con_err' = "none"
  /\ con_in' = NoInput
  /\ UNCHANGED con_errs
  /\ ct_call' = NoCall
  /\ UNCHANGED <<ct_cmds, ct_ncalls, dir>>
  /\ UNCHANGED drvars
  /\ UNCHANGED lrvars
  /\ UNCHANGED enginevars
  /\ UNCHANGED synvars
  /\ AppStep

\* the state chosen by the switch on the command character
CommandState(ch) ==
  CASE ch = "h" -> "PRINTING_HELP"
    [] ch = "e" -> "START_EXTRACTING"
    [] ch = "u" -> "START_UPDATING"
    [] ch = "c" -> "START_COMPARING"
    [] ch = "r" -> "START_REBUILDING"
    [] OTHER -> "PRINTING_HELP"

\* cmd_task_step() in CMD_TASK_STATE_AWAIT_COMMAND.  buf is not initialized:
\* when the read stores nothing buf[0] holds any character
cmd_task_AWAIT_COMMAND ==
  /\ ct_state = "AWAIT_COMMAND"
  /\ ct_cmds < MaxCmds
  /\ \E r \in ConsoleReads(CmdChars, 1) :
       LET n_read == ToSizeT(r.n)
           buf0 == IF r.n > 0 THEN {r.chars[1]} ELSE CmdChars \cup LineChars
       IN /\ con_err' = IF r.n < 0 THEN "cmd_task" ELSE "none"
          /\ con_errs' = IF r.n < 0 THEN con_errs + 1 ELSE con_errs
          /\ IF n_read < 0
             THEN /\ ct_state' = "ERROR"
                  /\ UNCHANGED <<ct_cmds, ct_ncalls, lr_state, lr_cmd>>
             ELSE IF n_read > 0
             THEN \E ch \in buf0 :
                    /\ ct_state' = CommandState(ch)
                    /\ IF ch \in {"e", "u", "c"} THEN line_reader_start
                       ELSE UNCHANGED <<lr_state, lr_cmd>>
                    /\ ct_cmds' = ct_cmds + 1
                    /\ ct_ncalls' = 0
             ELSE UNCHANGED <<ct_state, ct_cmds, ct_ncalls, lr_state, lr_cmd>>
  /\ ct_call' = NoCall
  /\ con_in' = NoInput
  /\ UNCHANGED <<dir, lr_linebuf, lr_n_read, lr_oob>>
  /\ UNCHANGED drvars
  /\ UNCHANGED enginevars
  /\ UNCHANGED synvars
  /\ AppStep

\* cmd_task_step() in one of the states that read a file name and then call
\* the engine entry point o
StartWithLine(state, o) ==
  /\ ct_state = state
  /\ line_reader_step
  /\ IF lr_state' = "ERROR"
     THEN ct_state' = "PRINTING_HELP" /\ ct_call' = NoCall
          /\ UNCHANGED ct_ncalls
     ELSE IF lr_state' = "SUCCESS"
     THEN /\ \E r \in BOOLEAN :
               ct_call' = [op |-> o, filename |-> CString(lr_linebuf', 0),
                           ret |-> r]
          /\ ct_ncalls' = ct_ncalls + 1
          /\ ct_state' = "PRINTING_HELP"
     ELSE ct_call' = NoCall /\ UNCHANGED <<ct_state, ct_ncalls>>
  /\ UNCHANGED <<ct_cmds, dir, lr_cmd>>
  /\ UNCHANGED drvars
  /\ UNCHANGED enginevars
  /\ UNCHANGED synvars
  /\ AppStep

\* cmd_task_step() in CMD_TASK_STATE_START_EXTRACTING
cmd_task_START_EXTRACTING == StartWithLine("START_EXTRACTING", "extract")

\* cmd_task_step() in CMD_TASK_STATE_START_UPDATING
cmd_task_START_UPDATING == StartWithLine("START_UPDATING", "update")

\* cmd_task_step() in CMD_TASK_STATE_START_COMPARING
cmd_task_START_COMPARING == StartWithLine("START_COMPARING", "compare")

\* cmd_task_step() in CMD_TASK_STATE_START_REBUILDING
cmd_task_START_REBUILDING ==
  /\ ct_state = "START_REBUILDING"
  /\ \E r \in BOOLEAN :
       ct_call' = [op |-> "rebuild_pll", filename |-> <<>>, ret |-> r]
  /\ ct_state' = "PRINTING_HELP"
  /\ ct_ncalls' = ct_ncalls + 1
  /\ con_err' = "none"
  /\ con_in' = NoInput
  /\ UNCHANGED con_errs
  /\ UNCHANGED <<ct_cmds, dir>>
  /\ UNCHANGED drvars
  /\ UNCHANGED lrvars
  /\ UNCHANGED enginevars
  /\ UNCHANGED synvars
  /\ AppStep

\* cmd_task, the readers and the console after APP_Initialize, on a card with
\* any directory; the engine and the table builder are at rest
TaskInitCmd ==
  /\ flash_size = 0
  /\ medium = <<>>
  /\ file = <<>>
  /\ efuse = 0
  /\ s_winc_is_opened = FALSE
  /\ s_xfer_buf = [i \in 1..FLASH_SECTOR_SZ |-> 0]
  /\ pc = "ready"
  /\ op = "none"
  /\ n_bytes = 0
  /\ addr = 0
  /\ fpos = 0
  /\ fopen = FALSE
  /\ ret = FALSE
  /\ log = <<>>
  /\ report = <<>>
  /\ medium0 = medium
  /\ dl_calls = 0
  /\ prev = [op |-> "none", ret |-> FALSE, rewrote |-> FALSE, entered |-> FALSE]
  /\ nops = 0
  /\ syn_pc = "idle"
  /\ syn_null = FALSE
  /\ syn_freqOffset = 0
  /\ syn_ret = 0
  /\ syn_i32 = 0 /\ syn_buf = <<>> /\ syn_calls = 0
  /\ syn_prev = [arg |-> 0, buf |-> <<>>]
  /\ ct_state = "INIT"
  /\ ct_cmds = 0
  /\ ct_call = NoCall
  /\ dr_state = "IDLE"
  /\ dr_file_count = 0
  /\ dr_dir_handle = "INVALID"
  /\ s_filenames = [i \in 1..(MAX_IMG_FILENAMES * MAX_FILENAME_LENGTH) |-> NUL]
  /\ dr_stores = <<>>
  /\ dir \in Dirs
  /\ dir_pos = 0
  /\ lr_state = "INIT"
  /\ lr_linebuf = [i \in 1..MAX_CHARS |-> NUL]
  /\ lr_n_read = 0
  /\ lr_oob = FALSE
  /\ con_err = "none"
  /\ con_errs = 0
  /\ con_in = NoInput
  /\ lr_cmd = 0
  /\ ct_ncalls = 0

\* the application starts on a card with any directory
TaskInit ==
  /\ TaskInitCmd
  /\ app_state = "IDLE"
  /\ app_mount_retries = 0
  /\ fs_mounted = FALSE
  /\ fs_drive = FALSE

\* the application has mounted the card and selected the drive at the first
\* attempt, and is about to step cmd_task for the first time
TaskLiveInit ==
  /\ TaskInitCmd
  /\ app_state = "PROCESSING_COMMANDS"
  /\ app_mount_retries = 1
  /\ fs_mounted = TRUE
  /\ fs_drive = TRUE

TaskNext ==
  \/ APP_Tasks_IDLE
  \/ APP_Tasks_AWAIT_FILESYSTEM
  \/ APP_Tasks_ERROR
  \/ cmd_task_INIT
  \/ cmd_task_PRINTING_HELP
  \/ cmd_task_READING_DIRECTORY
  \/ cmd_task_LISTING_DIRECTORY
  \/ cmd_task_AWAIT_COMMAND
  \/ cmd_task_START_EXTRACTING
  \/ cmd_task_START_UPDATING
  \/ cmd_task_START_COMPARING
  \/ cmd_task_START_REBUILDING

TaskSpec == TaskInit /\ [][TaskNext]_vars

\* the steps of cmd_task that do not wait for the console
CmdTaskSteps ==
  \/ cmd_task_INIT
  \/ cmd_task_PRINTING_HELP
  \/ cmd_task_READING_DIRECTORY
  \/ cmd_task_LISTING_DIRECTORY
  \/ cmd_task_START_REBUILDING

\* cmd_task stepped from its INIT state on.  APP_Tasks is called again and
\* again: a step of cmd_task that can be taken whatever the console delivers
\* is taken in the end.  Nothing is assumed of what the user types, nor of
\* when
TaskLiveNext ==
  \/ APP_Tasks_ERROR
  \/ cmd_task_INIT
  \/ cmd_task_PRINTING_HELP
  \/ cmd_task_READING_DIRECTORY
  \/ cmd_task_LISTING_DIRECTORY
  \/ cmd_task_AWAIT_COMMAND
  \/ cmd_task_START_EXTRACTING
  \/ cmd_task_START_UPDATING
  \/ cmd_task_START_COMPARING
  \/ cmd_task_START_REBUILDING

TaskLiveSpec ==
  TaskLiveInit /\ [][TaskLiveNext]_vars /\ WF_vars(CmdTaskSteps)

\* ------------------------------------------------------------------------
\* Vocabulary of the properties

\* an operation has returned
Done == pc = "ready" /\ op # "none"

\* the spi_flash calls that touch the flash content
FlashCalls == {"read", "erase", "write"}

LogHas(c) == \E i \in DOMAIN log : log[i].c = c

\* m2m_wifi_download_mode was called and failed in the current / last operation
DlFailed == \E i \in DOMAIN log : log[i].c = "download_mode" /\ ~log[i].ok

\* the byte range [a, a+n) intersects the protected region
Intersects(a, n) ==
  (a < M2M_PLL_FLASH_OFFSET + M2M_CONFIG_SECT_TOTAL_SZ) /\ (a + n > M2M_PLL_FLASH_OFFSET)

\* the n bytes of the file at offset a
FileChunk(f, a, n) == [i \in 1..n |-> f[a + i]]

NumSectors == Len(medium) \div FLASH_SECTOR_SZ

\* the calls made by the step from the current state to the next
NewCalls == IF pc = "ready" THEN log' ELSE SubSeq(log', Len(log) + 1, Len(log'))

CountCalls(l, c) == Cardinality({i \in DOMAIN l : l[i].c = c})

\* the operations that work on a file
FileOps == {"extract", "update", "compare"}

\* the positions of the successful SYS_FS_FileOpen calls of the log
Opened == {i \in DOMAIN log : log[i].c = "fopen" /\ log[i].ok}

\* the calls of the log to the function c, in the order they were made
CallsOf(c) == SelectSeq(log, LAMBDA e : e.c = c)

\* the number of chunks of capacity cap
NumChunks(cap) == (cap + FLASH_SECTOR_SZ - 1) \div FLASH_SECTOR_SZ

\* the bytes that the file calls of the sequence l moved to or from the file
RECURSIVE BytesMoved(_)
BytesMoved(l) ==
  IF l = <<>> THEN 0
  ELSE (IF Head(l).c \in {"fread", "fwrite"} /\ Head(l).ok THEN Head(l).n ELSE 0)
       + BytesMoved(Tail(l))

\* the position in the table of the member number m (from 1) of channel ch
ChannelSlot(ch, m) == MAGIC_WORDS + CHANNEL_PARM_WORDS * ch + m

\* the position in the table of the word of the frequency number freq
FreqSlot(freq) == MAGIC_WORDS + CHANNEL_PARM_WORDS * NUM_CHANNELS + freq + 1

\* the integer and fraction fields of a PLL word as one number, n * 2^19 + f
Ratio(w) == ((w.hi \div 8) % 512) * 524288 + (w.hi % 8) * 65536 + w.lo

\* the PLL word w is the ratio of the frequency mhz to the 52 MHz reference
\* of offset 0, rounded to 19 fraction bits: |w / 2^19 - mhz / 52| <= 2^-20
Encodes52(w, mhz) ==
  /\ 26 * Ratio(w) - mhz * 262144 <= 13
  /\ mhz * 262144 - 26 * Ratio(w) <= 13

\* the calls of the loop bodies
IoCalls == {"read", "erase", "write", "fread", "fwrite"}

\* the positions of the failed calls of the log, the mode entry set aside
Failed == {i \in DOMAIN log : ~log[i].ok /\ log[i].c # "download_mode"}

\* ------------------------------------------------------------------------
\* Properties

\* C1: during update no chunk whose address range intersects the protected
\* region [M2M_PLL_FLASH_OFFSET, M2M_PLL_FLASH_OFFSET + M2M_CONFIG_SECT_TOTAL_SZ)
\* is read, erased or written on the flash, each such chunk is reported as
\* skipped, and the flash bytes of the region keep the values they had when
\* update started.
C1_ProtectedRegionUntouched ==
  op = "update" =>
    /\ \A i \in DOMAIN log :
         log[i].c \in FlashCalls => ~Intersects(log[i].a, log[i].n)
    /\ \A k \in DOMAIN report :
         Intersects(report[k].a, report[k].n) => report[k].s = "x"
    /\ \A a \in 0..(Len(medium) - 1) :
         Intersects(a, 1) => medium[a + 1] = medium0[a + 1]

\* C1 witness: a successful update whose file differs from the flash inside
\* the protected region; the chunk was reported skipped.
C1_Witness ==
  /\ Done /\ op = "update" /\ ret
  /\ Len(file) >= M2M_PLL_FLASH_OFFSET + M2M_CONFIG_SECT_TOTAL_SZ
  /\ \E a \in 0..(Len(medium) - 1) : Intersects(a, 1) /\ file[a + 1] # medium[a + 1]
  /\ \E k \in DOMAIN report : report[k].s = "x"

\* C2 (as claimed): when m2m_wifi_download_mode fails, the operation returns
\* failure and makes no capacity query, flash read, erase or write and opens
\* no file.
C2_ModeEntryFailureAborts ==
  (Done /\ DlFailed) =>
    /\ ret = FALSE
    /\ \A i \in DOMAIN log :
         log[i].c \notin {"get_size", "read", "erase", "write", "fopen"}

\* C3 (as claimed): after an open_winc call in which m2m_wifi_download_mode
\* failed the session is still closed (s_winc_is_opened is false), so that
\* the next open_winc call tries again.
C3_FailedModeEntryLeavesClosed == DlFailed => ~s_winc_is_opened

\* C4: m2m_wifi_download_mode is called only by an open_winc that finds
\* s_winc_is_opened false; once the WINC has entered download mode the flag is
\* true, the flag never goes back to false, and while it is true
\* m2m_wifi_download_mode is not called again.
C4_ModeEntryOnce ==
  [][ /\ (dl_calls' # dl_calls => (~s_winc_is_opened /\ dl_calls' = dl_calls + 1))
      /\ ((\E i \in DOMAIN NewCalls : NewCalls[i].c = "download_mode" /\ NewCalls[i].ok)
            => s_winc_is_opened')
      /\ (s_winc_is_opened => (s_winc_is_opened' /\ dl_calls' = dl_calls)) ]_vars

\* C4 witness: two operations have run, the first one entered download mode
\* and the second one did not call m2m_wifi_download_mode.
C4_Witness ==
  /\ Done /\ nops = 2 /\ prev.entered /\ s_winc_is_opened /\ dl_calls = 1
  /\ ~LogHas("download_mode")

\* C5: an update that directly follows a successful update from the same
\* file issues no flash erase and no flash write and reports every sector as
\* unchanged or skipped.
C5_SecondUpdateRewritesNothing ==
  (op = "update" /\ prev.op = "update" /\ prev.ret) =>
    /\ ~LogHas("erase") /\ ~LogHas("write")
    /\ \A k \in DOMAIN report : report[k].s \in {"=", "x"}

\* C5 witness: the first update rewrote a sector, the second one went
\* through all sectors.
C5_Witness ==
  /\ Done /\ op = "update" /\ ret
  /\ prev.op = "update" /\ prev.ret /\ prev.rewrote
  /\ Len(report) = NumSectors

C7_EraseBeforeWrite ==
  [][ op' \in {"update", "rebuild"} =>
        /\ \A i \in DOMAIN NewCalls :
             NewCalls[i].c = "write" =>
               /\ i > 1
               /\ NewCalls[i - 1].c = "erase" /\ NewCalls[i - 1].ok
               /\ NewCalls[i - 1].a = NewCalls[i].a
        /\ \A i \in DOMAIN NewCalls :
             NewCalls[i].c = "erase" =>
               /\ i > 1
               /\ NewCalls[i - 1].c = "read" /\ NewCalls[i - 1].ok
               /\ NewCalls[i - 1].a = NewCalls[i].a
               /\ FlashRead(medium, NewCalls[i].a, FLASH_SECTOR_SZ) # s_xfer_buf'
        /\ \A i \in DOMAIN NewCalls :
             (/\ NewCalls[i].c = "read" /\ NewCalls[i].ok
              /\ FlashRead(medium, NewCalls[i].a, FLASH_SECTOR_SZ) = s_xfer_buf') =>
               \A j \in DOMAIN NewCalls : NewCalls[j].c \notin {"erase", "write"}
        /\ CountCalls(log', "erase") >= CountCalls(log', "write") ]_vars

\* C7 witness: an update that found one sector equal and rewrote another.
C7_Witness ==
  /\ Done /\ op = "update" /\ ret
  /\ \E k \in DOMAIN report : report[k].s = "="
  /\ \E k \in DOMAIN report : report[k].s = "!"
  /\ CountCalls(log, "erase") = CountCalls(log, "write")
  /\ LogHas("write")

\* C8: after update returned success from a file of at least capacity bytes,
\* every flash sector outside the protected region equals the file chunk at
\* its address, and it was reported rewritten if it differed from that chunk
\* when update started and unchanged otherwise.
C8_UpdateMakesMediumEqualFile ==
  (Done /\ op = "update" /\ ret /\ Len(file) >= Len(medium)) =>
    /\ Len(report) = NumSectors
    /\ \A k \in DOMAIN report :
         LET a == (k - 1) * FLASH_SECTOR_SZ IN
         /\ report[k].a = a
         /\ ~Intersects(a, FLASH_SECTOR_SZ) =>
              /\ FlashRead(medium, a, FLASH_SECTOR_SZ) = FileChunk(file, a, FLASH_SECTOR_SZ)
              /\ report[k].s =
                   IF FlashRead(medium0, a, FLASH_SECTOR_SZ) = FileChunk(file, a, FLASH_SECTOR_SZ)
                     THEN "=" ELSE "!"

\* C8 witness: a full-length file, first sector rewritten, second sector
\* unchanged, protected sector skipped.
C8_Witness ==
  /\ Done /\ op = "update" /\ ret /\ Len(file) >= Len(medium)
  /\ Len(report) >= 3
  /\ report[1].s = "!" /\ report[2].s = "=" /\ report[3].s = "x"

\* C9: compare and extract issue no flash erase and no flash write, and the
\* flash content stays what it was when the operation started, whatever the
\* file holds and whether the operation succeeds or fails.
C9_CompareExtractReadOnly ==
  op \in {"compare", "extract"} =>
    /\ ~LogHas("erase") /\ ~LogHas("write")
    /\ medium = medium0

\* C9 witness: a compare that found a differing sector, run after an
\* extract that failed.
C9_Witness ==
  /\ Done /\ op = "compare"
  /\ \E k \in DOMAIN report : report[k].s = "!"
  /\ prev.op = "extract" /\ ~prev.ret

C11_CompareTrueIffIdentical ==
  (Done /\ op = "compare") => (ret <=> (file = medium))

\* C12: on every path after a successful file open the file is closed exactly
\* once, as the last call of the operation, and not before the loop has ended;
\* a file that could not be opened is not closed; no handle is open between
\* operations.
C12_ClosedExactlyOnce ==
  /\ pc = "ready" => ~fopen
  /\ pc = "loop" => (fopen /\ Cardinality(Opened) = 1 /\ ~LogHas("fclose"))
  /\ (Done /\ op \in FileOps) =>
       /\ CountCalls(log, "fclose") = Cardinality(Opened)
       /\ CountCalls(log, "fopen") = 1
       /\ Opened # {} => log[Len(log)].c = "fclose"

\* C12 witness: an update failed in the middle of its loop (the flash write
\* of a sector failed) and the file was closed once, as the last call.
C12_Witness ==
  /\ Done /\ op = "update" /\ ~ret /\ ~fopen
  /\ Cardinality(Opened) = 1
  /\ \E i \in Failed : log[i].c = "write" /\ log[i].a > 0
  /\ CountCalls(log, "fclose") = 1
  /\ log[Len(log)].c = "fclose"

\* C13: the first failing spi_flash read, erase or write or file read or write
\* ends the operation: the only call after it is the file close, the operation
\* returns false, the loop does not run again, and every flash sector above the
\* failing chunk is as it was before the operation.
C13_FirstErrorStops ==
  /\ \A i \in Failed :
       log[i].c \in IoCalls =>
         /\ pc = "ready" /\ ret = FALSE
         /\ \A j \in DOMAIN log : j > i => log[j].c = "fclose"
  /\ (Done /\ op \in FileOps /\ Failed # {}) =>
       \A a \in 1..Len(medium) :
         a > addr + FLASH_SECTOR_SZ => medium[a] = medium0[a]

\* C13 witness: an update failed on its first sector (the flash write failed
\* after the erase, the sector is left erased) and left the next sector, which
\* differs from the file, untouched.
C13_Witness ==
  /\ Done /\ op = "update" /\ ~ret
  /\ addr = 0
  /\ \E i \in Failed : log[i].c = "write" /\ log[i].a = addr /\ log[i + 1].c = "fclose"
  /\ medium[1] = ERASED /\ medium0[1] # ERASED
  /\ Len(file) >= 2 * FLASH_SECTOR_SZ
  /\ \E a \in (FLASH_SECTOR_SZ + 1)..(2 * FLASH_SECTOR_SZ) :
       medium[a] # file[a] /\ medium[a] = medium0[a]

C15_SectorAligned ==
  /\ \A i \in DOMAIN log :
       log[i].c \in FlashCalls =>
         (log[i].a % FLASH_SECTOR_SZ = 0 /\ log[i].n = FLASH_SECTOR_SZ)
  /\ pc = "loop" => addr % FLASH_SECTOR_SZ = 0
  /\ M2M_PLL_FLASH_OFFSET % FLASH_SECTOR_SZ = 0
  /\ (Done /\ ~ret) => Failed # {}

\* C15 witness: an update and a rebuild in a row that between them read,
\* erased and wrote sectors at addresses above 0.
C15_Witness ==
  /\ Done /\ op = "rebuild" /\ ret /\ prev.op = "update" /\ prev.ret /\ prev.rewrote
  /\ \E i \in DOMAIN log :
       log[i].c = "write" /\ log[i].ok /\ log[i].a = M2M_PLL_FLASH_OFFSET

\* C16 (as claimed): extract, update and compare terminate (every step of a
\* loop ends the operation or lowers the bytes that remain); when no error
\* occurred the operation processed exactly ceil(capacity / S) chunks at the
\* addresses 0, S, 2S, ..., each of min(S, capacity - offset) bytes, with
\* capacity the reported flash size shifted left, and the bytes moved to or
\* from the file total exactly capacity.
C16_ChunksCoverCapacity ==
  /\ pc = "loop" => (n_bytes > 0 /\ n_bytes + addr = CapacityOf(flash_size))
  /\ (Done /\ op \in FileOps /\ Failed = {} /\ ~DlFailed) =>
       LET cap == CapacityOf(flash_size) IN
       /\ ret = TRUE
       /\ Len(report) = NumChunks(cap)
       /\ \A k \in DOMAIN report :
            /\ report[k].a = (k - 1) * FLASH_SECTOR_SZ
            /\ report[k].n = Min(FLASH_SECTOR_SZ, cap - report[k].a)
       /\ BytesMoved(log) = cap

\* C17: when read_efuse_struct does not deliver a valid calibration record,
\* rebuild returns false without any flash erase or write and leaves the flash
\* as it was; extract, update and compare never call read_efuse_struct, so a
\* missing record cannot make them fail.
C17_NoCalibrationNoRebuild ==
  /\ (op = "rebuild" /\ \E i \in DOMAIN log : log[i].c = "read_efuse" /\ ~log[i].ok) =>
       /\ pc = "ready" /\ ret = FALSE
       /\ ~LogHas("erase") /\ ~LogHas("write")
       /\ log[Len(log)].c = "read_efuse"
       /\ medium = medium0
  /\ op \in FileOps => ~LogHas("read_efuse")

\* C17 witness: rebuild failed on the calibration record while the PLL sector
\* did not hold the table of the record, so that a rebuild would have rewritten
\* it.
C17_Witness ==
  /\ Done /\ op = "rebuild" /\ ~ret
  /\ \E i \in DOMAIN log : log[i].c = "read_efuse" /\ ~log[i].ok
  /\ WithPllTable(FlashRead(medium, M2M_PLL_FLASH_OFFSET, FLASH_SECTOR_SZ), efuse)
       # FlashRead(medium, M2M_PLL_FLASH_OFFSET, FLASH_SECTOR_SZ)
  /\ prev.op = "update" /\ prev.ret

\* C18: after rebuild returned true the first bytes of the PLL sector are the
\* table built from the current calibration offset, the bytes of the sector
\* behind the table are what they were before, and every other sector of the
\* flash is unchanged.
C18_RebuildWritesTableOnly ==
  (Done /\ op = "rebuild" /\ ret) =>
    LET t == PllTable(efuse) IN
    \A a \in 1..Len(medium) :
      IF a > M2M_PLL_FLASH_OFFSET /\ a <= M2M_PLL_FLASH_OFFSET + Len(t)
        THEN medium[a] = t[a - M2M_PLL_FLASH_OFFSET]
        ELSE medium[a] = medium0[a]

\* C18 witness: rebuild returned true after it erased and wrote the PLL
\* sector, whose first byte changed and whose bytes behind the table are not 0.
C18_Witness ==
  /\ Done /\ op = "rebuild" /\ ret
  /\ \E i \in DOMAIN log :
       log[i].c = "write" /\ log[i].ok /\ log[i].a = M2M_PLL_FLASH_OFFSET
  /\ medium[M2M_PLL_FLASH_OFFSET + 1] # medium0[M2M_PLL_FLASH_OFFSET + 1]
  /\ medium[M2M_PLL_FLASH_OFFSET + FLASH_SECTOR_SZ] # 0

\* C19: rebuild makes no flash erase and no flash write, and reports the sector
\* as up to date, when the PLL sector already begins with the table of the
\* calibration record; in particular the second of two rebuilds in a row, the
\* first of which returned true, erases and writes nothing.
C19_RebuildIdempotent ==
  (Done /\ op = "rebuild") =>
    /\ (\A i \in 1..Len(PllTable(efuse)) :
          medium0[M2M_PLL_FLASH_OFFSET + i] = PllTable(efuse)[i]) =>
         /\ ~LogHas("erase") /\ ~LogHas("write")
         /\ medium = medium0
         /\ ret => (Len(report) = 1 /\ report[1].s = "=")
    /\ (prev.op = "rebuild" /\ prev.ret) =>
         (~LogHas("erase") /\ ~LogHas("write") /\ medium = medium0)

\* C19 witness: a rebuild that rewrote the PLL sector was followed by a
\* rebuild that returned true and reported the sector as up to date.
C19_Witness ==
  /\ Done /\ op = "rebuild" /\ ret
  /\ prev.op = "rebuild" /\ prev.ret /\ prev.rewrote
  /\ report = <<[a |-> M2M_PLL_FLASH_OFFSET, n |-> FLASH_SECTOR_SZ, s |-> "="]>>
  /\ LogHas("read_efuse") /\ CountCalls(log, "read") = 2

\* C20: for every value of the calibration offset a successful call of
\* winc3400_pll_table_build (one with a buffer) returns the table length
\* 8 + 14*8*4 + 85*4 bytes: 8 header bytes, 14 channel tuples of eight 32 bit
\* words and 85 frequency words; the length does not depend on the offset.
C20_TableLength ==
  syn_pc = "returned" =>
    /\ ~syn_null => syn_ret = 8 + 14 * 8 * 4 + 85 * 4
    /\ syn_ret > 0 => syn_ret = 8 + 14 * 8 * 4 + 85 * 4
    /\ syn_ret > 0 <=> ~syn_null

\* C20 witness: the builder returned 796 for the largest offset of the field.
C20_Witness ==
  /\ syn_pc = "returned" /\ ~syn_null
  /\ syn_freqOffset = 2 ^ FREQ_OFFSET_BITS - 1
  /\ syn_ret = 796

\* C21 (as claimed): the table length returned is always 8 + 14*32 + 85*4
\* bytes and this is 456 bytes, whatever the offset.
C21_TableLength456 ==
  (syn_pc = "returned" /\ ~syn_null) =>
    (syn_ret = 8 + 14 * 32 + 85 * 4 /\ syn_ret = 456)

\* C21 (amended): the table length returned is always 8 + 14*32 + 85*4 bytes
\* and this is 796 bytes, whatever the offset; 456 bytes is the length of the
\* header and the channel tuples without the frequency words.
C21_TableLength796 ==
  (syn_pc = "returned" /\ ~syn_null) =>
    /\ syn_ret = 8 + 14 * 32 + 85 * 4
    /\ syn_ret = 796
    /\ syn_ret - sizeof_strFreqParam = 456

\* C21 witness: the builder returned 796, not 456, for offset 0.
C21_Witness ==
  /\ syn_pc = "returned" /\ ~syn_null
  /\ syn_freqOffset = 0
  /\ syn_ret = 796 /\ syn_ret # 456

\* C23: for every raw value 0..32767 of the offset field the signed offset the
\* builder works with is raw - 32768 when raw > 16384 and raw otherwise.
C23_SignExtension ==
  (syn_pc = "returned" /\ ~syn_null /\ syn_freqOffset \in 0..32767) =>
    syn_i32 = (IF syn_freqOffset > 16384 THEN syn_freqOffset - 32768
                                         ELSE syn_freqOffset)

\* C23 witness: the raw value 16385, the first one above half the range, was
\* turned into -16383.
C23_Witness ==
  /\ syn_pc = "returned" /\ ~syn_null
  /\ syn_freqOffset = 16385
  /\ syn_i32 = -16383

\* C29 (as claimed): for every raw value 0..32767 of the offset field the
\* signed offset the builder works with lies in the signed 15 bit range
\* -16384..16383.
C29_SignedOffsetIn15Bits ==
  (syn_pc = "returned" /\ ~syn_null /\ syn_freqOffset \in 0..32767) =>
    (syn_i32 >= -16384 /\ syn_i32 <= 16383)

C24_Channel13Not4914 ==
  (syn_calls >= 1 /\ syn_freqOffset = 0) =>
    /\ Encodes52(syn_buf[ChannelSlot(13, 1)].w, 4968)
    /\ ~Encodes52(syn_buf[ChannelSlot(13, 1)].w, 4914)
    /\ CHANNEL_LO_FIRST + CHANNEL_LO_STEP * 13 = 4914
    /\ \A ch \in 0..12 : Encodes52(syn_buf[ChannelSlot(ch, 1)].w, 4824 + 10 * ch)

\* C24 (amended): with offset 0 the entry of channel 13 is computed from
\* 4968.0 MHz and not from 4954.0 MHz, the value that index 13 has in the
\* progression that starts at 4824.0 with steps of 10; the channels 0..12 use
\* 4824.0 + 10 * index.
C24_Channel13Not4954 ==
  (syn_calls >= 1 /\ syn_freqOffset = 0) =>
    /\ Encodes52(syn_buf[ChannelSlot(13, 1)].w, 4968)
    /\ ~Encodes52(syn_buf[ChannelSlot(13, 1)].w, 4954)
    /\ CHANNEL_LO_FIRST + CHANNEL_LO_STEP * 13 = 4954
    /\ \A ch \in 0..12 : Encodes52(syn_buf[ChannelSlot(ch, 1)].w, 4824 + 10 * ch)

\* C24 witness: the table was built for offset 0; the first word of channel
\* 13 holds the ratio 95 + 282309 / 2^19 of 4968 MHz to 52 MHz and the one of
\* channel 12 the ratio of 4944 MHz.
C24_Witness ==
  /\ syn_calls >= 1 /\ syn_freqOffset = 0 /\ syn_pc = "returned"
  /\ syn_buf[ChannelSlot(13, 1)].f = "u32PllInternal1"
  /\ syn_buf[ChannelSlot(13, 1)].i = 13
  /\ Ratio(syn_buf[ChannelSlot(13, 1)].w) = 95 * 524288 + 282309
  /\ Encodes52(syn_buf[ChannelSlot(12, 1)].w, 4944)

\* C25 (as claimed): the 85 frequency words are computed from the frequencies
\* 3840.0 + 2 * i MHz for the index i in 0..84, index 1 alone being replaced
\* by 4802.0 MHz; the frequencies ascend and each gives one word, stored in
\* index order.
C25_FreqsFrom3840 ==
  syn_calls >= 1 =>
    /\ \A i \in 0..NUM_FREQS :
         /\ syn_buf[FreqSlot(i)].f = "strFreqParam" /\ syn_buf[FreqSlot(i)].i = i
         /\ syn_freqOffset = 0 =>
              Encodes52(syn_buf[FreqSlot(i)].w, IF i = 1 THEN 4802 ELSE 3840 + 2 * i)
    /\ \A i \in 1..NUM_FREQS :
         (IF i - 1 = 1 THEN 4802 ELSE 3840 + 2 * (i - 1))
           < (IF i = 1 THEN 4802 ELSE 3840 + 2 * i)

\* C25 (amended): the 85 frequency words are computed from 3840.0 MHz for
\* index 0 and from 4802.0 + 2 * (i - 1) MHz for the index i in 1..84 (the
\* value set at index 1 is stepped on, the last one is 4968.0); the frequencies
\* ascend and each gives one word, stored in index order.
C25_FreqsFrom4802 ==
  syn_calls >= 1 =>
    /\ Len(syn_buf) = FreqSlot(NUM_FREQS)
    /\ \A i \in 0..NUM_FREQS :
         /\ syn_buf[FreqSlot(i)].f = "strFreqParam" /\ syn_buf[FreqSlot(i)].i = i
         /\ syn_freqOffset = 0 =>
              Encodes52(syn_buf[FreqSlot(i)].w, IF i = 0 THEN 3840 ELSE 4802 + 2 * (i - 1))
    /\ \A i \in 1..NUM_FREQS :
         syn_freqOffset = 0 =>
           Ratio(syn_buf[FreqSlot(i - 1)].w) < Ratio(syn_buf[FreqSlot(i)].w)

\* C25 witness: the table was built for offset 0; its frequency word 2 holds
\* the ratio of 4804 MHz (not of 3844 MHz) and its last word that of 4968 MHz.
C25_Witness ==
  /\ syn_calls >= 1 /\ syn_freqOffset = 0 /\ syn_pc = "returned"
  /\ Encodes52(syn_buf[FreqSlot(0)].w, 3840)
  /\ Encodes52(syn_buf[FreqSlot(2)].w, 4804)
  /\ ~Encodes52(syn_buf[FreqSlot(2)].w, 3844)
  /\ Encodes52(syn_buf[FreqSlot(84)].w, 4968)

\* C26: the table is laid out as the magic constant 0x12345675 in bytes 0..3
\* (word 1), the raw unsigned offset as passed in, not the sign extended one,
\* in bytes 4..7 (word 2), then the 14 channel tuples in the order of the
\* channels 0..13, each with its eight members in the order of the structure,
\* then the 85 frequency words in the order of the frequencies; the first word
\* of every channel tuple has bit 31 (enable) set and the second has bit 28
\* (dither) clear.
C26_TableLayout ==
  syn_calls >= 1 =>
    /\ SIZEOF_UINT32 * Len(syn_buf) = syn_ret
    /\ syn_buf[1] = [f |-> "magic", i |-> 0, w |-> [hi |-> 4660, lo |-> 22133]]
    /\ syn_buf[2].f = "magic" /\ syn_buf[2].i = 1
    /\ syn_buf[2].w.hi * 65536 + syn_buf[2].w.lo = syn_freqOffset
    /\ \A ch \in 0..13 :
         /\ \A m \in 1..8 :
              /\ syn_buf[2 + 8 * ch + m].f = ChannelFields[m]
              /\ syn_buf[2 + 8 * ch + m].i = ch
         /\ syn_buf[2 + 8 * ch + 1].w.hi \div 32768 = 1
         /\ (syn_buf[2 + 8 * ch + 2].w.hi \div 4096) % 2 = 0
    /\ \A k \in 0..84 :
         /\ syn_buf[2 + 8 * 14 + k + 1].f = "strFreqParam"
         /\ syn_buf[2 + 8 * 14 + k + 1].i = k

\* C26 witness: the table was built for the raw offset 32767, which the
\* builder works with as -1; word 2 holds 32767.
C26_Witness ==
  /\ syn_calls >= 1 /\ syn_pc = "returned"
  /\ syn_freqOffset = 32767 /\ syn_i32 = -1
  /\ syn_buf[2].w = [hi |-> 0, lo |-> 32767]
  /\ Len(syn_buf) = 199
  /\ syn_buf[3].f = "u32PllInternal1" /\ syn_buf[3].w.hi >= 32768
  /\ syn_buf[199].f = "strFreqParam" /\ syn_buf[199].i = 84

\* C30 (as claimed): every sector that update writes to the flash at address A
\* holds the bytes of the file at the offsets A .. A+S-1, read in that
\* iteration; a short or empty read of a file shorter than the flash never
\* makes update write bytes that an earlier chunk left in the transfer buffer.
C30_WrittenSectorIsFileChunk ==
  op = "update" =>
    \A k \in DOMAIN log :
      (log[k].c = "write" /\ log[k].ok) =>
        /\ log[k].a + FLASH_SECTOR_SZ <= Len(file)
        /\ \A i \in 1..FLASH_SECTOR_SZ : medium[log[k].a + i] = file[log[k].a + i]

\* the indexes asked for: every slot, the two indexes behind the last slot
\* and the largest uint8_t
RefProbes == 0..(MAX_IMG_FILENAMES + 1) \cup {2 ^ UINT8_BITS - 1}

\* C27: dir_reader_filename_ref(idx) is a reference to slot idx, inside the
\* table, exactly when idx is below the file count, and NULL otherwise; the
\* k-th image file name accepted by a listing (k from 0) is stored in slot k,
\* never through a NULL destination, and is the name found there afterwards.
C27_RefIsSlotBelowCount ==
  /\ \A idx \in RefProbes :
       (dir_reader_filename_ref(idx, dr_file_count) # NULL) <=> (idx < dr_file_count)
  /\ \A idx \in 0..(dr_file_count - 1) :
       LET ref == dir_reader_filename_ref(idx, dr_file_count)
       IN /\ ref = idx * MAX_FILENAME_LENGTH
          /\ ref + MAX_FILENAME_LENGTH <= Len(s_filenames)
          /\ CString(s_filenames, ref) = dr_stores[idx + 1].name
  /\ Len(dr_stores) = dr_file_count
  /\ \A k \in DOMAIN dr_stores :
       /\ dr_stores[k].dest # NULL
       /\ dr_stores[k].dest = (k - 1) * MAX_FILENAME_LENGTH

\* a listing has completed with every slot taken, by two different names
C27_Witness ==
  /\ dr_state = "COMPLETE"
  /\ dr_file_count = MAX_IMG_FILENAMES
  /\ Len(dr_stores) = MAX_IMG_FILENAMES
  /\ dr_stores[1].name # dr_stores[2].name
  /\ CString(s_filenames, MAX_FILENAME_LENGTH) = dr_stores[2].name

\* C28: when SYS_CONSOLE_Read has returned an error to cmd_task in
\* AWAIT_COMMAND, cmd_task is in CMD_TASK_STATE_ERROR after the step; when it
\* has returned an error to line_reader in AWAIT_LINE, line_reader is in
\* LINE_READER_STATE_ERROR after the step.
C28_ConsoleErrorEntersError ==
  /\ con_err = "cmd_task" => ct_state = "ERROR"
  /\ con_err = "line_reader" => lr_state = "ERROR"

\* the sector of the flash content m at address a
SectorAt(m, a) == [i \in 1..FLASH_SECTOR_SZ |-> m[a + i]]

\* the addresses of the sectors of the flash outside the protected region
FreeSectors ==
  {a \in 0..(Len(medium) - 1) :
     a % FLASH_SECTOR_SZ = 0 /\ ~Intersects(a, FLASH_SECTOR_SZ)}

\* C31 (as claimed): at every point of an update, also after it has failed,
\* each flash sector outside the protected region holds the content it had
\* when the update started or the chunk of the file for its address; no sector
\* is left erased without its new content.
C31_SectorOldOrFileChunk ==
  op = "update" =>
    \A a \in FreeSectors :
      \/ SectorAt(medium, a) = SectorAt(medium0, a)
      \/ /\ a + FLASH_SECTOR_SZ <= Len(file)
         /\ SectorAt(medium, a) = FileChunk(file, a, FLASH_SECTOR_SZ)

\* C31 (amended): at every point of an update each flash sector outside the
\* protected region holds the content it had when the update started, or the
\* content update wrote for its address (the chunk of the file whenever the
\* file holds a whole chunk for the address), or 0xFF in every byte; the
\* latter only for the sector whose spi_flash_write failed after its erase,
\* which is the last flash call of the update, and the update returns false.
C31_SectorOldWrittenOrErasedAtFailure ==
  op = "update" =>
    \A a \in FreeSectors :
      \/ SectorAt(medium, a) = SectorAt(medium0, a)
      \/ /\ \E k \in DOMAIN log : log[k].c = "write" /\ log[k].ok /\ log[k].a = a
         /\ a + FLASH_SECTOR_SZ <= Len(file) =>
              SectorAt(medium, a) = FileChunk(file, a, FLASH_SECTOR_SZ)
      \/ /\ SectorAt(medium, a) = [i \in 1..FLASH_SECTOR_SZ |-> ERASED]
         /\ \E k \in DOMAIN log :
              /\ log[k].c = "write" /\ ~log[k].ok /\ log[k].a = a
              /\ \A j \in DOMAIN log : j > k => log[j].c \notin FlashCalls
         /\ Done /\ ~ret

\* an update has stopped at a write that failed after the erase, and the sector
\* is erased
C31_Witness ==
  /\ Done /\ op = "update" /\ ~ret
  /\ \E a \in FreeSectors :
       /\ SectorAt(medium, a) = [i \in 1..FLASH_SECTOR_SZ |-> ERASED]
       /\ SectorAt(medium, a) # SectorAt(medium0, a)
       /\ \E k \in DOMAIN log : log[k].c = "write" /\ ~log[k].ok /\ log[k].a = a

\* C32: no call of spi_flash_read, spi_flash_erase or spi_flash_write made by
\* extract, update or compare touches a byte at or behind the capacity that
\* spi_flash_get_size reported: every call covers [a, a + n) with
\* a + n <= capacity, the one for the final chunk of the pass included.
C32_FlashCallsBelowCapacity ==
  op \in FileOps =>
    \A k \in DOMAIN log :
      log[k].c \in FlashCalls =>
        /\ log[k].a >= 0
        /\ log[k].a + log[k].n <= CapacityOf(flash_size)

\* a pass over a flash of more than one sector has come to its end, and its
\* last flash call ends exactly at the capacity
C32_Witness ==
  /\ Done /\ op \in FileOps /\ ret
  /\ CapacityOf(flash_size) > FLASH_SECTOR_SZ
  /\ Len(report) = NumChunks(CapacityOf(flash_size))
  /\ \E k \in DOMAIN log :
       /\ log[k].c \in FlashCalls
       /\ log[k].a + log[k].n = CapacityOf(flash_size)

\* the flash calls that change the flash content
ChangingCalls == {"erase", "write"}

\* C33: extract, update and compare make no spi_flash_erase and no
\* spi_flash_write inside the protected region, and the bytes of the region
\* are those the flash held when the operation started (so they stay what they
\* are across any sequence of these operations); rebuild erases and writes
\* only the one sector at M2M_PLL_FLASH_OFFSET and changes no byte outside it.
C33_OnlyRebuildChangesProtected ==
  /\ op \in FileOps =>
       /\ \A k \in DOMAIN log :
            log[k].c \in ChangingCalls => ~Intersects(log[k].a, log[k].n)
       /\ \A a \in 0..(Len(medium) - 1) :
            Intersects(a, 1) => medium[a + 1] = medium0[a + 1]
  /\ op = "rebuild" =>
       /\ \A k \in DOMAIN log :
            log[k].c \in ChangingCalls =>
              log[k].a = M2M_PLL_FLASH_OFFSET /\ log[k].n = FLASH_SECTOR_SZ
       /\ \A a \in 0..(Len(medium) - 1) :
            (a < M2M_PLL_FLASH_OFFSET \/ a >= M2M_PLL_FLASH_OFFSET + FLASH_SECTOR_SZ)
              => medium[a + 1] = medium0[a + 1]

\* the second of two file operations was an update that rewrote a sector,
\* from a file that differs from the flash inside the protected region
C33_Witness ==
  /\ Done /\ op = "update" /\ ret /\ prev.op \in FileOps
  /\ \E k \in DOMAIN log : log[k].c = "write" /\ log[k].ok
  /\ Len(file) >= M2M_PLL_FLASH_OFFSET + M2M_CONFIG_SECT_TOTAL_SZ
  /\ \E a \in 0..(Len(medium) - 1) : Intersects(a, 1) /\ file[a + 1] # medium[a + 1]

\* a call of cmd_task_step(): one of the steps of the command task
CmdTaskStepped ==
  \/ ct_state' # ct_state
  \/ ct_cmds' # ct_cmds
  \/ ct_call' # NoCall
  \/ drvars' # drvars
  \/ lrvars' # lrvars
  \/ con_errs' # con_errs

\* the command task, the directory reader and the line reader are as
\* cmd_task_init() and dir_reader_init() left them
CmdTaskUntouched ==
  /\ ct_state = "INIT"
  /\ ct_cmds = 0
  /\ ct_call = NoCall
  /\ dr_state = "IDLE"
  /\ dr_dir_handle = "INVALID"
  /\ lr_state = "INIT"
  /\ con_errs = 0

\* C34: the command task is stepped (and so an engine operation invoked or a
\* directory read made) only once the filesystem is mounted and the current
\* drive selected; a step in AWAIT_FILESYSTEM whose mount fails stays there
\* and has tried the mount once more; APP_STATE_ERROR is never left and in it
\* the command task is no longer stepped.
C34_StepsOnlyWhenMounted ==
  /\ [](~(fs_mounted /\ fs_drive) => CmdTaskUntouched)
  /\ [][CmdTaskStepped =>
          fs_mounted /\ fs_drive /\ app_state = "PROCESSING_COMMANDS"]_vars
  /\ [][app_state = "AWAIT_FILESYSTEM" =>
          /\ app_mount_retries' = app_mount_retries + 1
          /\ ~fs_mounted' => app_state' = "AWAIT_FILESYSTEM"]_vars
  /\ [][app_state = "ERROR" =>
          app_state' = "ERROR" /\ UNCHANGED taskvars]_vars

\* the mount failed once and then succeeded, the command task was stepped
\* until its directory read failed, and the application is in its error state
C34_Witness ==
  /\ app_state = "ERROR"
  /\ app_mount_retries = 2
  /\ fs_mounted /\ fs_drive
  /\ ct_state = "ERROR"

\* C35: the step of cmd_task that invokes an engine operation leaves it in
\* PRINTING_HELP and the application in PROCESSING_COMMANDS, whether the
\* operation returned success or failure; cmd_task enters ERROR only in the
\* step in which the directory reader ends in error or a console read of
\* cmd_task returned an error, and never leaves it.
C35_EngineResultIgnored ==
  /\ [](ct_call # NoCall =>
          ct_state = "PRINTING_HELP" /\ app_state = "PROCESSING_COMMANDS")
  /\ [][ct_state # "ERROR" /\ ct_state' = "ERROR" =>
          \/ ct_state = "READING_DIRECTORY" /\ dr_state' = "ERROR"
          \/ ct_state = "AWAIT_COMMAND" /\ con_err' = "cmd_task"]_vars
  /\ [][ct_state = "ERROR" => ct_state' = "ERROR"]_vars

\* winc_cloner_update has just returned failure
C35_Witness ==
  /\ ct_call.op = "update"
  /\ ~ct_call.ret
  /\ ct_state = "PRINTING_HELP"
  /\ app_state = "PROCESSING_COMMANDS"

\* the engine operations that take the file name read by line_reader
LineOps == {"extract", "update", "compare"}

\* a step of cmd_task in which line_reader read the console
LineReadStep ==
  /\ ct_state \in {"START_EXTRACTING", "START_UPDATING", "START_COMPARING"}
  /\ lr_state = "AWAIT_LINE"

\* C36 as stated: an engine operation is invoked at most once per command,
\* and only in a step in which line_reader ends in SUCCESS the line started
\* by that command; when the first CR, LF or escape typed after the
\* characters line_reader has taken so far is an escape, the step invokes no
\* engine operation and line_reader does not end in SUCCESS.
C36_EscapeTypedNeverInvokes ==
  /\ [](ct_ncalls <= 1)
  /\ [][ct_call'.op \in LineOps =>
          /\ LineReadStep
          /\ lr_state' = "SUCCESS"
          /\ lr_cmd' = ct_cmds']_vars
  /\ [][(/\ LineReadStep
         /\ con_err' = "none"
         /\ LET typed == con_in'.chars \o
                         (IF con_in'.next = "none" THEN <<>>
                          ELSE <<con_in'.next>>)
                t == FirstTerminator(typed)
            IN t > 0 /\ typed[t] = ESC)
        => lr_state' # "SUCCESS" /\ ct_call' = NoCall]_vars

\* C36 as amended: an engine operation is invoked at most once per command,
\* and only in a step in which line_reader ends in SUCCESS the line started
\* by that command; when the first CR, LF or escape among the characters a
\* read of line_reader returned is an escape, line_reader ends in ERROR and
\* cmd_task returns to PRINTING_HELP without invoking an engine operation.
C36_EscapeReadNeverInvokes ==
  /\ [](ct_ncalls <= 1)
  /\ [][ct_call'.op \in LineOps =>
          /\ LineReadStep
          /\ lr_state' = "SUCCESS"
          /\ lr_cmd' = ct_cmds']_vars
  /\ [][(/\ LineReadStep
         /\ LET t == FirstTerminator(con_in'.chars)
            IN t > 0 /\ con_in'.chars[t] = ESC)
        => /\ lr_state' = "ERROR"
           /\ ct_state' = "PRINTING_HELP"
           /\ ct_call' = NoCall]_vars

\* the second command of the run has read its own line, while the SUCCESS of
\* the first was still standing when it started, and invoked its operation
C36_Witness ==
  /\ ct_cmds = 2
  /\ lr_cmd = 2
  /\ ct_call.op \in LineOps
  /\ ct_ncalls = 1
  /\ lr_state = "SUCCESS"

\* C38: the file count of the directory reader never exceeds
\* MAX_IMG_FILENAMES; the step that opens the directory sets it to 0; an
\* entry delivered when the count is at the limit changes neither the count
\* nor the table of names, and the reader goes on reading.
C38_FileCountBounded ==
  /\ [](dr_file_count <= MAX_IMG_FILENAMES)
  /\ [][dr_state = "OPENING_DIRECTORY" /\ dr_state' # dr_state =>
          dr_file_count' = 0]_vars
  /\ [][(/\ dr_state = "READING_DIRECTORY"
         /\ dr_file_count = MAX_IMG_FILENAMES
         /\ dir_pos' = dir_pos + 1)
        => /\ UNCHANGED <<dr_file_count, s_filenames, dr_stores>>
           /\ dr_state' = "READING_DIRECTORY"]_vars

\* the second listing of a directory with one image more than the table
\* holds is complete
C38_Witness ==
  /\ dr_state = "COMPLETE"
  /\ ct_cmds >= 1
  /\ Len(dir) = MAX_IMG_FILENAMES + 1
  /\ \A i \in DOMAIN dir : string_ends_with(dir[i], IMAGE_EXTENSION)
  /\ dir_pos = Len(dir)
  /\ dr_file_count = MAX_IMG_FILENAMES
  /\ Len(dr_stores) = MAX_IMG_FILENAMES

\* C39: whenever the directory reader is in COMPLETE or ERROR it holds no
\* open directory handle.
C39_NoHandleWhenDone ==
  dr_state \in {"COMPLETE", "ERROR"} => dr_dir_handle = "INVALID"

\* C40: the count of characters stored by line_reader never exceeds
\* MAX_CHARS and the size asked of the console never exceeds the room left
\* behind them, so that no memory outside the line buffer is touched; a step
\* that finds the buffer full ends in SUCCESS with NUL in its last place;
\* a step whose read has CR or LF as its first terminator ends in SUCCESS
\* with NUL in the place of that character.
C40_LineWithinBuffer ==
  /\ [](lr_n_read <= MAX_CHARS)
  /\ [](lr_state = "AWAIT_LINE" =>
          lr_n_read + ToSizeT(MAX_CHARS - lr_n_read) <= MAX_CHARS)
  /\ [](~lr_oob)
  /\ [][LineReadStep /\ lr_n_read = MAX_CHARS =>
          lr_state' = "SUCCESS" /\ lr_linebuf'[MAX_CHARS] = NUL]_vars
  /\ [][(/\ LineReadStep
         /\ LET t == FirstTerminator(con_in'.chars)
            IN t > 0 /\ con_in'.chars[t] \in {CR, LF})
        => LET t == FirstTerminator(con_in'.chars)
           IN /\ lr_state' = "SUCCESS"
              /\ lr_n_read + t \in DOMAIN lr_linebuf
              /\ lr_linebuf'[lr_n_read + t] = NUL
              /\ \A i \in 1..(lr_n_read + t - 1) : lr_linebuf'[i] # NUL]_vars

\* the states of cmd_task in which a file name is read
LineStates == {"START_EXTRACTING", "START_UPDATING", "START_COMPARING"}

\* C37: whenever cmd_task is stepped in a state other than AWAIT_COMMAND, from
\* INIT or after a command character, it reaches AWAIT_COMMAND in the end,
\* with the directory reader complete and every entry of the directory
\* delivered, unless the directory reader ends in error or the file name line
\* of the command is never terminated; and the listing is entered only in
\* the step in which the directory reader completes a read.
C37_ReachesAwaitCommand ==
  /\ [](ct_state # "AWAIT_COMMAND" =>
          \/ <>(/\ ct_state = "AWAIT_COMMAND"
                /\ dr_state = "COMPLETE"
                /\ dir_pos = Len(dir))
          \/ <>(dr_state = "ERROR")
          \/ <>[](ct_state \in LineStates))
  /\ [][ct_state' = "LISTING_DIRECTORY" /\ ct_state # "LISTING_DIRECTORY" =>
          dr_state = "CLOSING_DIRECTORY" /\ dr_state' = "COMPLETE"]_vars

\* cmd_task waits for a command again after a command whose line was
\* ended by the user, and the directory has been listed again
C37_Witness ==
  /\ ct_state = "AWAIT_COMMAND"
  /\ ct_cmds = 1
  /\ lr_cmd = 1
  /\ lr_state \in {"SUCCESS", "ERROR"}
  /\ dr_state = "COMPLETE"
  /\ dir_pos = Len(dir)
  /\ Len(dir) = MaxDirLen

====
